---- MODULE Spec2Model ----
(***************************************************************************)
(* Environment discovery and caching engine of nuitka-tool.py.             *)
(*                                                                         *)
(* Spec      : one PythonDetectionThread at a time (run, the scan of       *)
(*             _perform_full_python_detection, stop/cancel, the timeout),  *)
(*             its CacheManager path-list file, and the NuitkaPackager     *)
(*             callbacks that receive its signals.                         *)
(* SpecCache : the CacheManager version store (version_cache.json) used by *)
(*             two VersionCheckThread workers, and cleanup_expired_cache.  *)
(*                                                                         *)
(* Paths are sequences of characters (small naturals), so that len(x) and  *)
(* the lexical order of two paths are computed, not assumed.  Time is      *)
(* counted in days.                                                        *)
(***************************************************************************)
EXTENDS Naturals, Integers, Sequences, FiniteSets, TLC

VARIABLES
    now,            \* wall clock, in days
    host,           \* what the scanners find on this machine
    pathsFile,      \* CacheManager.python_paths_cache_file
    pkFile,         \* NuitkaPackager cache_dir/python_paths_cache.pkl
    pc,             \* position of the PythonDetectionThread
    force,          \* PythonDetectionThread.force
    is_running,     \* PythonDetectionThread._is_running
    timedOut,       \* time.time() - _start_time > timeout
    environments,   \* result of _detect_environments_combined
    python_paths,   \* the list being built by the scan
    pathIdx,        \* index of the PATH directory scanned next
    sigCompleted,   \* detection_completed emissions of this run: <<list, from_cache>>
    sigFailed,      \* number of detection_failed emissions of this run
    stats,          \* CacheManager.stats of the worker's cache manager
    run,            \* number of runs started
    lastLookup,     \* the last cache lookup: store, hit, age of what it read
    stopAt,         \* the phase in which stop or the timeout was first raised
    scanned,        \* a scanner was executed in this run
    saveOk,         \* the cache save of this run: "none", "ok" or "failed"
    fileAtStart,    \* pathsFile when the run started
    prev,           \* outcome of the previous run, while nothing changed since
    rootTouched,    \* the root of RootPath was modified after the cache naming it was written
    verFile,        \* version_cache.json
    vpc,            \* position of each VersionCheckThread
    vlocal,         \* cache_data held by each worker's cache manager
    vver,           \* the versions each worker probed
    vcanceled,      \* VersionCheckThread._canceled
    vmutex,         \* CacheManager._mutex of each worker's cache manager: held or not
    vstats,         \* CacheManager.stats of each worker's cache manager
    vresult,        \* what cleanup_expired_cache did, when it was the last operation
    corrupt,        \* the cache files whose content cannot be deserialized
    sop,            \* the last operation on the one cache manager of SpecStore
    thr,            \* the QThread objects created so far
    active_threads, \* ThreadManager.active_threads: thread_id -> thread object
    thread_lock,    \* ThreadManager.thread_lock: "free", or held by "cancel_all"
    cq,             \* cancel_all_threads: the handles still to be visited
    csnap,          \* cancel_all_threads: the handles in the map when it was called
    creturned,      \* the last cancel_all_threads has returned
    python_detection_thread,  \* NuitkaPackager.python_detection_thread, 0 when unset
    started,        \* NuitkaPackager.__init__ has run
    vrun,           \* one VersionCheckThread followed through run()
    val,            \* a candidate path and what the two validators answer for it
    inv,            \* a cached result, what is on disk, and what auto_detect_python does
    scan,           \* what each source holds, and what the two full scans return
    nuitka_check    \* the last check_nuitka_installation: what it read and did

vars == << now, host, pathsFile, pkFile, pc, force, is_running,
           timedOut, environments, python_paths, pathIdx, sigCompleted,
           sigFailed, stats, run, lastLookup, stopAt, scanned, saveOk,
           fileAtStart, prev, rootTouched, verFile, vpc, vlocal, vver,
           vcanceled, vmutex, vstats, vresult, corrupt, sop, thr,
           active_threads, thread_lock, cq, csnap, creturned,
           python_detection_thread, started, vrun, val, inv, scan, nuitka_check >>

discVars == << host, pathsFile, pkFile, pc, force, is_running,
               timedOut, environments, python_paths, pathIdx, sigCompleted,
               sigFailed, stats, run, stopAt, scanned, saveOk,
               fileAtStart, prev, rootTouched >>

verVars == << verFile, vpc, vlocal, vver, vcanceled, vmutex, vstats, vresult >>

storeVars == << corrupt, sop >>

supVars == << thr, active_threads, thread_lock, cq, csnap, creturned,
              python_detection_thread, started >>

probeVars == << vrun >>

validVars == << val >>

invalVars == << inv >>

scanVars == << scan >>

nkVars == << nuitka_check >>

----------------------------------------------------------------------------
(* Bounds and program constants *)

CACHE_EXPIRY_DAYS == 7
MaxTicks == 2
MaxRuns == 2
MaxOps == 3
MaxThreads == 3
MaxMarkers == 1
MaxCached == 2

----------------------------------------------------------------------------
(* Paths *)

P1 == << 1, 1 >>
P2 == << 1, 2 >>
P3 == << 2 >>
NoPath == << >>
Paths == { P1, P2, P3 }
RootPath == P3

Range(s) == { s[i] : i \in 1..Len(s) }

Contains(s, x) == \E i \in 1..Len(s) : s[i] = x

\* paths_list.append(p) guarded by os.path.isfile(p) and p not in paths_list
AppendNew(s, p) == IF p = NoPath \/ Contains(s, p) THEN s ELSE Append(s, p)

RECURSIVE AppendAllNew(_, _)
AppendAllNew(s, ps) ==
    IF ps = << >> THEN s ELSE AppendAllNew(AppendNew(s, Head(ps)), Tail(ps))

\* lexical order of two paths
RECURSIVE LexLeq(_, _)
LexLeq(a, b) ==
    IF a = << >> THEN TRUE
    ELSE IF b = << >> THEN FALSE
    ELSE IF Head(a) # Head(b) THEN Head(a) < Head(b)
    ELSE LexLeq(Tail(a), Tail(b))

\* list(set(x)): the elements of x once each, in an order the build chooses
Perms(S) ==
    { s \in [1..Cardinality(S) -> S] : \A i, j \in 1..Cardinality(S) : i # j => s[i] # s[j] }

ListOfSet(s) == Perms(Range(s))

\* insertion of x into a list sorted by key len, after every element of equal key
RECURSIVE InsertByLen(_, _)
InsertByLen(s, x) ==
    IF s = << >> THEN << x >>
    ELSE IF Len(x) < Len(Head(s)) THEN << x >> \o s
    ELSE << Head(s) >> \o InsertByLen(Tail(s), x)

RECURSIVE SortFrom(_, _)
SortFrom(acc, s) ==
    IF s = << >> THEN acc ELSE SortFrom(InsertByLen(acc, Head(s)), Tail(s))

\* python_paths.sort(key=lambda x: len(x)): a stable sort on the length alone
SortByLen(s) == SortFrom(<< >>, s)

----------------------------------------------------------------------------
(* The on-disk path-list caches *)

\* the number of Tick steps that led to time t (fewer than CACHE_EXPIRY_DAYS of them)
Ticks(t) == (t \div CACHE_EXPIRY_DAYS) + (t % CACHE_EXPIRY_DAYS)

NoFile == [exists |-> FALSE, data |-> << >>, mtime |-> 0]

Written(data, t) == [exists |-> TRUE, data |-> data, mtime |-> t]

ZeroStats == [hits |-> 0, misses |-> 0, writes |-> 0, errors |-> 0]

NoLookup == [store |-> "none", hit |-> FALSE, age |-> 0]

NoPrev == [valid |-> FALSE, paths |-> << >>]

\* cache_age > timedelta(days=self.cache_duration_days)
\* an entry taken as expired on the day its age reaches the expiry
ExpiredAtBoundary(age) == age >= CACHE_EXPIRY_DAYS

Expired(age) == age > CACHE_EXPIRY_DAYS

\* CacheManager.get_cached_python_paths(check_expiry=True): the list, or None
get_cached_python_paths_hit(f, t) == f.exists /\ ~Expired(t - f.mtime)

\* NuitkaPackager._load_from_cache: the pickled data if the file exists
load_from_cache_hit(f, t) == f.exists

\* `if cached_paths:` in PythonDetectionThread.run
Truthy(list) == list # << >>

----------------------------------------------------------------------------
(* PythonDetectionThread *)

ScanPcs == { "scanEnv", "check1604", "scanVars", "scanPath", "scanReg" }
RunPcs == { "started", "consult", "save", "check1231", "sort" } \cup ScanPcs

\* the phase of the run a position belongs to
Phase(p) == IF p \in ScanPcs THEN "scan"
            ELSE IF p \in { "started", "consult" } THEN "before" ELSE "after"

\* `not self._is_running or self._check_timeout()`
Interrupted == ~is_running \/ timedOut

\* _check_timeout calls self.stop() when the timeout is exceeded
AfterCheck == is_running /\ ~timedOut

\* NuitkaPackager.start_python_detection / the thread created in __init__
StartDetection ==
    /\ pc = "idle"
    /\ run < MaxRuns
    /\ \E f \in BOOLEAN : force' = (f /\ run > 0)
    /\ pc' = "started"
    /\ run' = run + 1
    /\ is_running' = TRUE
    /\ timedOut' = FALSE
    /\ environments' = << >>
    /\ python_paths' = << >>
    /\ pathIdx' = 1
    /\ sigCompleted' = << >>
    /\ sigFailed' = 0
    /\ stats' = ZeroStats
    /\ lastLookup' = NoLookup
    /\ stopAt' = "none"
    /\ scanned' = FALSE
    /\ saveOk' = "none"
    /\ fileAtStart' = pathsFile
    /\ UNCHANGED << now, host, pathsFile, pkFile, prev, rootTouched >>
    /\ UNCHANGED verVars
    /\ UNCHANGED storeVars
    /\ UNCHANGED supVars
    /\ UNCHANGED probeVars
    /\ UNCHANGED validVars
    /\ UNCHANGED invalVars
    /\ UNCHANGED scanVars
    /\ UNCHANGED nkVars

\* PythonDetectionThread.stop, reached from cancel()
stop ==
    /\ pc \in RunPcs
    /\ is_running
    /\ ~timedOut
    /\ is_running' = FALSE
    /\ stopAt' = IF stopAt = "none" THEN Phase(pc) ELSE stopAt
    /\ UNCHANGED << now, host, pathsFile, pkFile, pc, force, timedOut,
                    environments, python_paths, pathIdx, sigCompleted, sigFailed,
                    stats, run, lastLookup, scanned, saveOk, fileAtStart, prev,
                    rootTouched >>
    /\ UNCHANGED verVars
    /\ UNCHANGED storeVars
    /\ UNCHANGED supVars
    /\ UNCHANGED probeVars
    /\ UNCHANGED validVars
    /\ UNCHANGED invalVars
    /\ UNCHANGED scanVars
    /\ UNCHANGED nkVars

\* the elapsed time passes the configured timeout (timeout = 30 s > 0)
TimeoutElapses ==
    /\ pc \in RunPcs \ { "started" }
    /\ is_running
    /\ ~timedOut
    /\ timedOut' = TRUE
    /\ stopAt' = IF stopAt = "none" THEN Phase(pc) ELSE stopAt
    /\ UNCHANGED << now, host, pathsFile, pkFile, pc, force, is_running,
                    environments, python_paths, pathIdx, sigCompleted, sigFailed,
                    stats, run, lastLookup, scanned, saveOk, fileAtStart, prev,
                    rootTouched >>
    /\ UNCHANGED verVars
    /\ UNCHANGED storeVars
    /\ UNCHANGED supVars
    /\ UNCHANGED probeVars
    /\ UNCHANGED validVars
    /\ UNCHANGED invalVars
    /\ UNCHANGED scanVars
    /\ UNCHANGED nkVars

\* run(): _start_time is recorded, detection_started is emitted
\* a run that looks into the cache whatever force says
RunStartConsults ==
    /\ pc = "started"
    /\ pc' = "consult"
    /\ UNCHANGED << now, host, pathsFile, pkFile, force, is_running,
                    timedOut, environments, python_paths, pathIdx, sigCompleted,
                    sigFailed, stats, run, lastLookup, stopAt, scanned, saveOk,
                    fileAtStart, prev, rootTouched >>
    /\ UNCHANGED verVars
    /\ UNCHANGED storeVars
    /\ UNCHANGED supVars
    /\ UNCHANGED probeVars
    /\ UNCHANGED validVars
    /\ UNCHANGED invalVars
    /\ UNCHANGED scanVars
    /\ UNCHANGED nkVars

RunStart ==
    /\ pc = "started"
    /\ pc' = IF force THEN "scanEnv" ELSE "consult"
    /\ UNCHANGED << now, host, pathsFile, pkFile, force, is_running,
                    timedOut, environments, python_paths, pathIdx, sigCompleted,
                    sigFailed, stats, run, lastLookup, stopAt, scanned, saveOk,
                    fileAtStart, prev, rootTouched >>
    /\ UNCHANGED verVars
    /\ UNCHANGED storeVars
    /\ UNCHANGED supVars
    /\ UNCHANGED probeVars
    /\ UNCHANGED validVars
    /\ UNCHANGED invalVars
    /\ UNCHANGED scanVars
    /\ UNCHANGED nkVars

\* run() without the return that follows the emission of the cached list
ConsultCacheNoReturn ==
    /\ pc = "consult"
    /\ LET hit == get_cached_python_paths_hit(pathsFile, now)
       IN  /\ stats' = IF hit THEN [stats EXCEPT !.hits = @ + 1]
                              ELSE [stats EXCEPT !.misses = @ + 1]
           /\ lastLookup' = [store |-> "paths", hit |-> hit,
                             age |-> IF pathsFile.exists THEN now - pathsFile.mtime ELSE 0]
           /\ sigCompleted' = IF hit /\ Truthy(pathsFile.data)
                                 THEN Append(sigCompleted, << pathsFile.data, TRUE >>)
                                 ELSE sigCompleted
           /\ pc' = "scanEnv"
    /\ UNCHANGED << now, host, pathsFile, pkFile, force, is_running,
                    timedOut, environments, python_paths, pathIdx, sigFailed, run,
                    stopAt, scanned, saveOk, fileAtStart, prev, rootTouched >>
    /\ UNCHANGED verVars
    /\ UNCHANGED storeVars
    /\ UNCHANGED supVars
    /\ UNCHANGED probeVars
    /\ UNCHANGED validVars
    /\ UNCHANGED invalVars
    /\ UNCHANGED scanVars
    /\ UNCHANGED nkVars

\* run(): the cache consultation of a non-forced run
ConsultCache ==
    /\ pc = "consult"
    /\ LET hit == get_cached_python_paths_hit(pathsFile, now)
       IN  /\ stats' = IF hit THEN [stats EXCEPT !.hits = @ + 1]
                              ELSE [stats EXCEPT !.misses = @ + 1]
           /\ lastLookup' = [store |-> "paths", hit |-> hit,
                             age |-> IF pathsFile.exists THEN now - pathsFile.mtime ELSE 0]
           /\ IF hit /\ Truthy(pathsFile.data)
                 THEN /\ sigCompleted' = Append(sigCompleted, << pathsFile.data, TRUE >>)
                      /\ pc' = "done"
                 ELSE /\ pc' = "scanEnv"
                      /\ UNCHANGED sigCompleted
    /\ UNCHANGED << now, host, pathsFile, pkFile, force, is_running,
                    timedOut, environments, python_paths, pathIdx, sigFailed, run,
                    stopAt, scanned, saveOk, fileAtStart, prev, rootTouched >>
    /\ UNCHANGED verVars
    /\ UNCHANGED storeVars
    /\ UNCHANGED supVars
    /\ UNCHANGED probeVars
    /\ UNCHANGED validVars
    /\ UNCHANGED invalVars
    /\ UNCHANGED scanVars
    /\ UNCHANGED nkVars

\* _detect_environments_combined: every loop breaks when interrupted
ScanEnv ==
    /\ pc = "scanEnv"
    /\ scanned' = TRUE
    /\ IF Interrupted
          THEN \E k \in 0..Len(host.env) : environments' = SubSeq(host.env, 1, k)
          ELSE environments' = host.env
    /\ is_running' = AfterCheck
    /\ pc' = "check1604"
    /\ UNCHANGED << now, host, pathsFile, pkFile, force, timedOut,
                    python_paths, pathIdx, sigCompleted, sigFailed, stats, run,
                    lastLookup, stopAt, saveOk, fileAtStart, prev, rootTouched >>
    /\ UNCHANGED verVars
    /\ UNCHANGED storeVars
    /\ UNCHANGED supVars
    /\ UNCHANGED probeVars
    /\ UNCHANGED validVars
    /\ UNCHANGED invalVars
    /\ UNCHANGED scanVars
    /\ UNCHANGED nkVars

\* _perform_full_python_detection: the check after the combined detection
Check1604 ==
    /\ pc = "check1604"
    /\ IF Interrupted
          THEN /\ python_paths' = << >>
               /\ pc' = "check1231"
          ELSE /\ python_paths' = environments
               /\ pc' = "scanVars"
    /\ is_running' = AfterCheck
    /\ UNCHANGED << now, host, pathsFile, pkFile, force, timedOut,
                    environments, pathIdx, sigCompleted, sigFailed, stats, run,
                    lastLookup, stopAt, scanned, saveOk, fileAtStart, prev,
                    rootTouched >>
    /\ UNCHANGED verVars
    /\ UNCHANGED storeVars
    /\ UNCHANGED supVars
    /\ UNCHANGED probeVars
    /\ UNCHANGED validVars
    /\ UNCHANGED invalVars
    /\ UNCHANGED scanVars
    /\ UNCHANGED nkVars

\* the environment variables (CONDA_PREFIX, PYTHON_HOME, ...): no interruption check
ScanVars ==
    /\ pc = "scanVars"
    /\ python_paths' = AppendNew(python_paths, host.var)
    /\ pathIdx' = 1
    /\ pc' = "scanPath"
    /\ UNCHANGED << now, host, pathsFile, pkFile, force, is_running,
                    timedOut, environments, sigCompleted, sigFailed, stats, run,
                    lastLookup, stopAt, scanned, saveOk, fileAtStart, prev,
                    rootTouched >>
    /\ UNCHANGED verVars
    /\ UNCHANGED storeVars
    /\ UNCHANGED supVars
    /\ UNCHANGED probeVars
    /\ UNCHANGED validVars
    /\ UNCHANGED invalVars
    /\ UNCHANGED scanVars
    /\ UNCHANGED nkVars

\* one iteration of `for path in paths:` over PATH; it breaks when interrupted
ScanPathDir ==
    /\ pc = "scanPath"
    /\ IF pathIdx > Len(host.dirs)
          THEN /\ pc' = "scanReg"
               /\ UNCHANGED << python_paths, pathIdx, is_running >>
          ELSE IF Interrupted
          THEN /\ pc' = "scanReg"
               /\ is_running' = AfterCheck
               /\ UNCHANGED << python_paths, pathIdx >>
          ELSE /\ python_paths' = AppendNew(python_paths, host.dirs[pathIdx])
               /\ pathIdx' = pathIdx + 1
               /\ UNCHANGED << pc, is_running >>
    /\ UNCHANGED << now, host, pathsFile, pkFile, force, timedOut,
                    environments, sigCompleted, sigFailed, stats, run, lastLookup,
                    stopAt, scanned, saveOk, fileAtStart, prev, rootTouched >>
    /\ UNCHANGED verVars
    /\ UNCHANGED storeVars
    /\ UNCHANGED supVars
    /\ UNCHANGED probeVars
    /\ UNCHANGED validVars
    /\ UNCHANGED invalVars
    /\ UNCHANGED scanVars
    /\ UNCHANGED nkVars

\* the registry scan: registry_paths, then each appended unless already present
ScanReg ==
    /\ pc = "scanReg"
    /\ python_paths' = AppendAllNew(python_paths, host.reg)
    /\ pc' = "save"
    /\ UNCHANGED << now, host, pathsFile, pkFile, force, is_running,
                    timedOut, environments, pathIdx, sigCompleted, sigFailed, stats,
                    run, lastLookup, stopAt, scanned, saveOk, fileAtStart, prev,
                    rootTouched >>
    /\ UNCHANGED verVars
    /\ UNCHANGED storeVars
    /\ UNCHANGED supVars
    /\ UNCHANGED probeVars
    /\ UNCHANGED validVars
    /\ UNCHANGED invalVars
    /\ UNCHANGED scanVars
    /\ UNCHANGED nkVars

\* python_paths = list(set(python_paths)); cache_manager.save_cached_python_paths
SaveCache ==
    /\ pc = "save"
    /\ \E perm \in ListOfSet(python_paths), ok \in BOOLEAN :
          /\ python_paths' = perm
          /\ saveOk' = IF ok THEN "ok" ELSE "failed"
          /\ IF ok
                THEN /\ pathsFile' = Written(perm, now)
                     /\ stats' = [stats EXCEPT !.writes = @ + 1]
                     /\ rootTouched' = FALSE
                ELSE /\ stats' = [stats EXCEPT !.errors = @ + 1]
                     /\ UNCHANGED << pathsFile, rootTouched >>
    /\ pc' = "check1231"
    /\ UNCHANGED << now, host, pkFile, force, is_running, timedOut,
                    environments, pathIdx, sigCompleted, sigFailed, run, lastLookup,
                    stopAt, scanned, fileAtStart, prev >>
    /\ UNCHANGED verVars
    /\ UNCHANGED storeVars
    /\ UNCHANGED supVars
    /\ UNCHANGED probeVars
    /\ UNCHANGED validVars
    /\ UNCHANGED invalVars
    /\ UNCHANGED scanVars
    /\ UNCHANGED nkVars

\* run(): `if not self._is_running or self._check_timeout(): return`
Check1231 ==
    /\ pc = "check1231"
    /\ pc' = IF Interrupted THEN "done" ELSE "sort"
    /\ is_running' = AfterCheck
    /\ UNCHANGED << now, host, pathsFile, pkFile, force, timedOut,
                    environments, python_paths, pathIdx, sigCompleted, sigFailed,
                    stats, run, lastLookup, stopAt, scanned, saveOk, fileAtStart,
                    prev, rootTouched >>
    /\ UNCHANGED verVars
    /\ UNCHANGED storeVars
    /\ UNCHANGED supVars
    /\ UNCHANGED probeVars
    /\ UNCHANGED validVars
    /\ UNCHANGED invalVars
    /\ UNCHANGED scanVars
    /\ UNCHANGED nkVars

\* run(): list(set(...)), sort by length, detection_completed.emit(paths, False)
SortEmit ==
    /\ pc = "sort"
    /\ \E perm \in ListOfSet(python_paths) :
          /\ python_paths' = SortByLen(perm)
          /\ sigCompleted' = Append(sigCompleted, << SortByLen(perm), FALSE >>)
    /\ pc' = "done"
    /\ UNCHANGED << now, host, pathsFile, pkFile, force, is_running,
                    timedOut, environments, pathIdx, sigFailed, stats, run,
                    lastLookup, stopAt, scanned, saveOk, fileAtStart, prev,
                    rootTouched >>
    /\ UNCHANGED verVars
    /\ UNCHANGED storeVars
    /\ UNCHANGED supVars
    /\ UNCHANGED probeVars
    /\ UNCHANGED validVars
    /\ UNCHANGED invalVars
    /\ UNCHANGED scanVars
    /\ UNCHANGED nkVars

\* run(): `except Exception` around the whole body emits detection_failed
RunException ==
    /\ pc \in ScanPcs
    /\ sigFailed' = sigFailed + 1
    /\ pc' = "done"
    /\ UNCHANGED << now, host, pathsFile, pkFile, force, is_running,
                    timedOut, environments, python_paths, pathIdx, sigCompleted,
                    stats, run, lastLookup, stopAt, scanned, saveOk, fileAtStart,
                    prev, rootTouched >>
    /\ UNCHANGED verVars
    /\ UNCHANGED storeVars
    /\ UNCHANGED supVars
    /\ UNCHANGED probeVars
    /\ UNCHANGED validVars
    /\ UNCHANGED invalVars
    /\ UNCHANGED scanVars
    /\ UNCHANGED nkVars

----------------------------------------------------------------------------
(* NuitkaPackager: the receivers of the worker's signals, and the clock *)

\* the outcome a finished run leaves behind for the run that follows at once
Outcome ==
    IF Len(sigCompleted) > 0 /\ stopAt = "none" /\ saveOk # "failed"
       THEN [valid |-> TRUE, paths |-> sigCompleted[1][1]]
       ELSE NoPrev

\* check_nuitka_installation(force): the cache lookup before the thread is created
NuitkaLookup(f) ==
    [store |-> "packager", hit |-> load_from_cache_hit(f, now),
     age |-> IF f.exists THEN now - f.mtime ELSE 0]

\* what _load_from_cache returns: None, or the unpickled data
NoneResult == [some |-> FALSE, data |-> << >>]

\* NuitkaPackager._load_from_cache(cache_key): the file name is fixed, the key
\* is not used, and the data of the file are returned whatever wrote them
load_from_cache(cache_key, f) ==
    IF f.exists THEN [some |-> TRUE, data |-> f.data] ELSE NoneResult

\* _get_cache_key({'python_cmd': ..., 'timestamp': day}): neither field is among
\* those the key is computed from
nuitka_cache_key(python_cmd, day) == << "python_paths", << >> >>

NoNuitkaCheck ==
    [asked |-> FALSE, file |-> NoFile, cached_result |-> NoneResult,
     thread_started |-> FALSE]

NkIdle == nuitka_check = NoNuitkaCheck

\* check_nuitka_installation(force=False) when the cache file is f: a result
\* that is not None is returned and no NuitkaDetectionThread is created
check_nuitka_installation(f) ==
    LET cached_result == load_from_cache(nuitka_cache_key("python", now), f)
    IN  [asked |-> TRUE, file |-> f, cached_result |-> cached_result,
         thread_started |-> ~cached_result.some]

\* the finished thread object is dropped: its fields are gone with it
ThreadDropped ==
    /\ force' = FALSE
    /\ is_running' = TRUE
    /\ timedOut' = FALSE
    /\ environments' = << >>
    /\ python_paths' = << >>
    /\ pathIdx' = 1
    /\ sigCompleted' = << >>
    /\ sigFailed' = 0
    /\ stats' = ZeroStats
    /\ stopAt' = "none"
    /\ scanned' = FALSE
    /\ saveOk' = "none"
    /\ fileAtStart' = NoFile

\* _on_detection_completed: the receiver of the thread created in __init__
OnDetectionCompleted ==
    /\ pc = "done"
    /\ run = 1
    /\ Len(sigCompleted) > 0
    /\ LET paths == sigCompleted[1][1]
           from_cache == sigCompleted[1][2]
           saved == IF from_cache THEN pkFile ELSE Written(paths, now)
       IN  /\ pkFile' = saved
           /\ lastLookup' = NuitkaLookup(saved)
           /\ nuitka_check' = check_nuitka_installation(saved)
    /\ prev' = Outcome
    /\ pc' = "idle"
    /\ ThreadDropped
    /\ UNCHANGED << now, host, pathsFile, run, rootTouched >>
    /\ UNCHANGED verVars
    /\ UNCHANGED storeVars
    /\ UNCHANGED supVars
    /\ UNCHANGED probeVars
    /\ UNCHANGED validVars
    /\ UNCHANGED invalVars
    /\ UNCHANGED scanVars

\* _on_python_detection_completed: the receiver of start_python_detection's thread
OnPythonDetectionCompleted ==
    /\ pc = "done"
    /\ run > 1
    /\ Len(sigCompleted) > 0
    /\ LET paths == sigCompleted[1][1]
           from_cache == sigCompleted[1][2]
       IN  pkFile' = IF Truthy(paths) /\ ~from_cache THEN Written(paths, now) ELSE pkFile
    /\ prev' = Outcome
    /\ pc' = "idle"
    /\ ThreadDropped
    /\ UNCHANGED << now, host, pathsFile, run, lastLookup, rootTouched >>
    /\ UNCHANGED verVars
    /\ UNCHANGED storeVars
    /\ UNCHANGED supVars
    /\ UNCHANGED probeVars
    /\ UNCHANGED validVars
    /\ UNCHANGED invalVars
    /\ UNCHANGED scanVars
    /\ UNCHANGED nkVars

\* _on_python_detection_failed, and the lambda connected in __init__
OnDetectionFailed ==
    /\ pc = "done"
    /\ Len(sigCompleted) = 0
    /\ sigFailed > 0
    /\ prev' = NoPrev
    /\ pc' = "idle"
    /\ ThreadDropped
    /\ UNCHANGED << now, host, pathsFile, pkFile, run, lastLookup, rootTouched >>
    /\ UNCHANGED verVars
    /\ UNCHANGED storeVars
    /\ UNCHANGED supVars
    /\ UNCHANGED probeVars
    /\ UNCHANGED validVars
    /\ UNCHANGED invalVars
    /\ UNCHANGED scanVars
    /\ UNCHANGED nkVars

\* the thread ended without emitting: nothing reaches the packager
ThreadFinishedSilently ==
    /\ pc = "done"
    /\ Len(sigCompleted) = 0
    /\ sigFailed = 0
    /\ prev' = NoPrev
    /\ pc' = "idle"
    /\ ThreadDropped
    /\ UNCHANGED << now, host, pathsFile, pkFile, run, lastLookup, rootTouched >>
    /\ UNCHANGED verVars
    /\ UNCHANGED storeVars
    /\ UNCHANGED supVars
    /\ UNCHANGED probeVars
    /\ UNCHANGED validVars
    /\ UNCHANGED invalVars
    /\ UNCHANGED scanVars
    /\ UNCHANGED nkVars

\* check_nuitka_installation(force=False), from the detection button
CheckNuitkaInstallation ==
    /\ pc = "idle"
    /\ run > 0
    /\ lastLookup' = NuitkaLookup(pkFile)
    /\ nuitka_check' = check_nuitka_installation(pkFile)
    /\ lastLookup' # lastLookup
    /\ UNCHANGED << now, host, pathsFile, pkFile, pc, force, is_running,
                    timedOut, environments, python_paths, pathIdx, sigCompleted,
                    sigFailed, stats, run, stopAt, scanned, saveOk, fileAtStart,
                    prev, rootTouched >>
    /\ UNCHANGED verVars
    /\ UNCHANGED storeVars
    /\ UNCHANGED supVars
    /\ UNCHANGED probeVars
    /\ UNCHANGED validVars
    /\ UNCHANGED invalVars
    /\ UNCHANGED scanVars

\* time passes while no detection is running: a day, or a whole expiry period
Tick ==
    /\ pc = "idle"
    /\ pathsFile.exists \/ pkFile.exists
    /\ Ticks(now) < MaxTicks
    /\ \E d \in { 1, CACHE_EXPIRY_DAYS } : now' = now + d
    /\ prev' = NoPrev
    /\ lastLookup' = NoLookup
    /\ UNCHANGED << host, pathsFile, pkFile, pc, force, is_running,
                    timedOut, environments, python_paths, pathIdx, sigCompleted,
                    sigFailed, stats, run, stopAt, scanned, saveOk, fileAtStart,
                    rootTouched >>
    /\ UNCHANGED verVars
    /\ UNCHANGED storeVars
    /\ UNCHANGED supVars
    /\ UNCHANGED probeVars
    /\ UNCHANGED validVars
    /\ UNCHANGED invalVars
    /\ UNCHANGED scanVars
    /\ UNCHANGED nkVars

\* the environment root of RootPath is modified (its mtime becomes the current time)
TouchRoot ==
    /\ pc = "idle"
    /\ pathsFile.exists
    /\ Contains(pathsFile.data, RootPath)
    /\ ~rootTouched
    /\ rootTouched' = TRUE
    /\ prev' = NoPrev
    /\ UNCHANGED << now, host, pathsFile, pkFile, pc, force, is_running, timedOut,
                    environments, python_paths, pathIdx, sigCompleted, sigFailed,
                    stats, run, lastLookup, stopAt, scanned, saveOk, fileAtStart >>
    /\ UNCHANGED verVars
    /\ UNCHANGED storeVars
    /\ UNCHANGED supVars
    /\ UNCHANGED probeVars
    /\ UNCHANGED validVars
    /\ UNCHANGED invalVars
    /\ UNCHANGED scanVars
    /\ UNCHANGED nkVars

----------------------------------------------------------------------------
(* CacheManager: the version store, as used by VersionCheckThread workers *)

\* two VersionCheckThread objects that share ~/.nuitka_packager_cache
Workers == { 1, 2 }

\* VersionCheckThread.python_cmd
Cmd(w) == IF w = 1 THEN P1 ELSE P2

\* VersionCheckThread.__init__: self.cache_manager = CacheManager(), and
\* CacheManager.__init__: self._mutex = QMutex(); the mutex a worker locks is the
\* one of its own cache manager
MutexOf(w) == w

\* CacheManager._get_cache_key: the md5 digest of the path
cache_key(cmd) == << "md5", cmd >>

\* what the two probes of one check return; both invoke python_cmd, so the tool
\* answers only where the interpreter does
ProbeResults ==
    { << "None", "None" >>, << "3.11", "None" >>, << "3.11", "2.8" >> }

EmptyData == [k \in {} |-> 0]

NoVerFile == [exists |-> FALSE, data |-> EmptyData]

Entry(py, nk, t) ==
    [python_version |-> py, nuitka_version |-> nk, timestamp |-> t, parsed |-> TRUE]

\* an entry whose 'timestamp' datetime.fromisoformat cannot parse
BadEntry ==
    [python_version |-> "3.11", nuitka_version |-> "None", timestamp |-> 0, parsed |-> FALSE]

Put(d, k, e) == [x \in (DOMAIN d) \cup { k } |-> IF x = k THEN e ELSE d[x]]

Del(d, k) == [x \in (DOMAIN d) \ { k } |-> d[x]]

Restrict(d, S) == [x \in S |-> d[x]]

\* an entry is kept only when it is younger than the expiry
RetainedOffByOne(e, t) == e.parsed /\ (t - e.timestamp < CACHE_EXPIRY_DAYS)

\* cleanup_expired_cache: an entry is kept when its timestamp parses and
\* current_time - cache_time <= timedelta(days=self.cache_duration_days)
Retained(e, t) == e.parsed /\ (t - e.timestamp <= CACHE_EXPIRY_DAYS)

NoCleanup ==
    [ran |-> FALSE, before |-> EmptyData, after |-> EmptyData, removed |-> 0,
     at |-> 0, io |-> TRUE, errors |-> 0]

VerEnded == { "hit", "saved", "saveFailed", "done" }

\* a VersionCheckThread is created for python_cmd and started
VStart(w) ==
    /\ vpc[w] = "idle"
    /\ vpc' = [vpc EXCEPT ![w] = "new"]
    /\ UNCHANGED << now, verFile, vlocal, vver, vcanceled, vmutex,
                    vstats >>
    /\ lastLookup' = NoLookup
    /\ vresult' = NoCleanup
    /\ UNCHANGED discVars
    /\ UNCHANGED storeVars
    /\ UNCHANGED supVars
    /\ UNCHANGED probeVars
    /\ UNCHANGED validVars
    /\ UNCHANGED invalVars
    /\ UNCHANGED scanVars
    /\ UNCHANGED nkVars

\* VersionCheckThread.cancel
VCancel(w) ==
    /\ vpc[w] = "probe"
    /\ ~vcanceled[w]
    /\ vcanceled' = [vcanceled EXCEPT ![w] = TRUE]
    /\ UNCHANGED << now, verFile, vpc, vlocal, vver, vmutex, vstats >>
    /\ lastLookup' = NoLookup
    /\ vresult' = NoCleanup
    /\ UNCHANGED discVars
    /\ UNCHANGED storeVars
    /\ UNCHANGED supVars
    /\ UNCHANGED probeVars
    /\ UNCHANGED validVars
    /\ UNCHANGED invalVars
    /\ UNCHANGED scanVars
    /\ UNCHANGED nkVars

\* get_cached_versions: an entry is served when its timestamp parses and
\* datetime.now() - cache_time > timedelta(days=...) is false
get_hit(e, t) == e.parsed /\ ~Expired(t - e.timestamp)

\* get_cached_versions up to its return, or up to the write-back of an expired entry
VGet(w) ==
    /\ vpc[w] = "new"
    /\ ~vmutex[MutexOf(w)]
    /\ LET k == cache_key(Cmd(w))
           present == verFile.exists /\ k \in DOMAIN verFile.data
           e == verFile.data[k]
           parsed == present /\ e.parsed
           expired == parsed /\ Expired(now - e.timestamp)
           hit == present /\ get_hit(e, now)
       IN  /\ lastLookup' = [store |-> "versions", hit |-> hit,
                             age |-> IF parsed THEN now - e.timestamp ELSE 0]
           /\ IF expired
                 THEN /\ vlocal' = [vlocal EXCEPT ![w] = Del(verFile.data, k)]
                      /\ vmutex' = [vmutex EXCEPT ![MutexOf(w)] = TRUE]
                      /\ vpc' = [vpc EXCEPT ![w] = "getWrite"]
                      /\ UNCHANGED vstats
                 ELSE /\ vstats' = [vstats EXCEPT ![w] =
                                       IF hit THEN [@ EXCEPT !.hits = @ + 1]
                                              ELSE [@ EXCEPT !.misses = @ + 1]]
                      /\ vpc' = [vpc EXCEPT ![w] =
                                    IF hit /\ ( e.python_version # "None"
                                                \/ e.nuitka_version # "None" )
                                       THEN "hit" ELSE "probe"]
                      /\ UNCHANGED << vlocal, vmutex >>
    /\ UNCHANGED << now, verFile, vver, vcanceled >>
    /\ vresult' = NoCleanup
    /\ UNCHANGED discVars
    /\ UNCHANGED storeVars
    /\ UNCHANGED supVars
    /\ UNCHANGED probeVars
    /\ UNCHANGED validVars
    /\ UNCHANGED invalVars
    /\ UNCHANGED scanVars
    /\ UNCHANGED nkVars

\* get_cached_versions: the expired entry is deleted and the file written back
VGetWriteBack(w) ==
    /\ vpc[w] = "getWrite"
    /\ \E ok \in BOOLEAN :
          verFile' = IF ok THEN [exists |-> TRUE, data |-> vlocal[w]] ELSE verFile
    /\ vstats' = [vstats EXCEPT ![w] = [@ EXCEPT !.misses = @ + 1]]
    /\ vmutex' = [vmutex EXCEPT ![MutexOf(w)] = FALSE]
    /\ vpc' = [vpc EXCEPT ![w] = "probe"]
    /\ vlocal' = [vlocal EXCEPT ![w] = EmptyData]
    /\ UNCHANGED << now, vver, vcanceled >>
    /\ lastLookup' = NoLookup
    /\ vresult' = NoCleanup
    /\ UNCHANGED discVars
    /\ UNCHANGED storeVars
    /\ UNCHANGED supVars
    /\ UNCHANGED probeVars
    /\ UNCHANGED validVars
    /\ UNCHANGED invalVars
    /\ UNCHANGED scanVars
    /\ UNCHANGED nkVars

\* _get_python_version and _get_nuitka_version: None when the invocation fails
VProbe(w) ==
    /\ vpc[w] = "probe"
    /\ IF vcanceled[w]
          THEN /\ vpc' = [vpc EXCEPT ![w] = "done"]
               /\ UNCHANGED vver
          ELSE /\ vpc' = [vpc EXCEPT ![w] = "saveRead"]
               /\ \E r \in ProbeResults : vver' = [vver EXCEPT ![w] = r]
    /\ UNCHANGED << now, verFile, vlocal, vcanceled, vmutex, vstats >>
    /\ lastLookup' = NoLookup
    /\ vresult' = NoCleanup
    /\ UNCHANGED discVars
    /\ UNCHANGED storeVars
    /\ UNCHANGED supVars
    /\ UNCHANGED probeVars
    /\ UNCHANGED validVars
    /\ UNCHANGED invalVars
    /\ UNCHANGED scanVars
    /\ UNCHANGED nkVars

\* save_cached_versions: the lock is taken and the existing file read
VSaveRead(w) ==
    /\ vpc[w] = "saveRead"
    /\ ~vmutex[MutexOf(w)]
    /\ vmutex' = [vmutex EXCEPT ![MutexOf(w)] = TRUE]
    /\ vlocal' = [vlocal EXCEPT ![w] = IF verFile.exists THEN verFile.data ELSE EmptyData]
    /\ vpc' = [vpc EXCEPT ![w] = "saveWrite"]
    /\ UNCHANGED << now, verFile, vver, vcanceled, vstats >>
    /\ lastLookup' = NoLookup
    /\ vresult' = NoCleanup
    /\ UNCHANGED discVars
    /\ UNCHANGED storeVars
    /\ UNCHANGED supVars
    /\ UNCHANGED probeVars
    /\ UNCHANGED validVars
    /\ UNCHANGED invalVars
    /\ UNCHANGED scanVars
    /\ UNCHANGED nkVars

\* save_cached_versions: the entry is set, the file written, the lock released
VSaveWrite(w) ==
    /\ vpc[w] = "saveWrite"
    /\ \E ok \in BOOLEAN :
          IF ok
             THEN /\ verFile' = [exists |-> TRUE,
                                 data |-> Put(vlocal[w], cache_key(Cmd(w)),
                                              Entry(vver[w][1], vver[w][2], now))]
                  /\ vstats' = [vstats EXCEPT ![w] = [@ EXCEPT !.writes = @ + 1]]
                  /\ vpc' = [vpc EXCEPT ![w] = "saved"]
             ELSE /\ vstats' = [vstats EXCEPT ![w] = [@ EXCEPT !.errors = @ + 1]]
                  /\ vpc' = [vpc EXCEPT ![w] = "saveFailed"]
                  /\ UNCHANGED verFile
    /\ vmutex' = [vmutex EXCEPT ![MutexOf(w)] = FALSE]
    /\ vlocal' = [vlocal EXCEPT ![w] = EmptyData]
    /\ vver' = [vver EXCEPT ![w] = << "None", "None" >>]
    /\ UNCHANGED << now, vcanceled >>
    /\ lastLookup' = NoLookup
    /\ vresult' = NoCleanup
    /\ UNCHANGED discVars
    /\ UNCHANGED storeVars
    /\ UNCHANGED supVars
    /\ UNCHANGED probeVars
    /\ UNCHANGED validVars
    /\ UNCHANGED invalVars
    /\ UNCHANGED scanVars
    /\ UNCHANGED nkVars

\* _on_version_check_completed, _on_cache_hit: the reference to the finished
\* thread, and with it its cache manager, is dropped
VDrop(w) ==
    /\ vpc[w] \in VerEnded
    /\ vpc' = [vpc EXCEPT ![w] = "idle"]
    /\ vcanceled' = [vcanceled EXCEPT ![w] = FALSE]
    /\ vstats' = [vstats EXCEPT ![w] = ZeroStats]
    /\ UNCHANGED << now, verFile, vlocal, vver, vmutex >>
    /\ lastLookup' = NoLookup
    /\ vresult' = NoCleanup
    /\ UNCHANGED discVars
    /\ UNCHANGED storeVars
    /\ UNCHANGED supVars
    /\ UNCHANGED probeVars
    /\ UNCHANGED validVars
    /\ UNCHANGED invalVars
    /\ UNCHANGED scanVars
    /\ UNCHANGED nkVars

\* cleanup_expired_cache, called on a cache manager of the caller's own (its
\* mutex is shared with nobody)
cleanup_expired_cache ==
    /\ \E ok \in BOOLEAN :
          LET data == IF verFile.exists THEN verFile.data ELSE EmptyData
              valid_entries ==
                  Restrict(data, { k \in DOMAIN data : Retained(data[k], now) })
              shrinks == Cardinality(DOMAIN valid_entries) < Cardinality(DOMAIN data)
              removed_count ==
                  Cardinality(DOMAIN data) - Cardinality(DOMAIN valid_entries)
          IN  IF shrinks /\ ok
                 THEN /\ verFile' = [exists |-> TRUE, data |-> valid_entries]
                      /\ vresult' = [ran |-> TRUE, before |-> data,
                                     after |-> valid_entries,
                                     removed |-> removed_count, at |-> now,
                                     io |-> TRUE, errors |-> 0]
                 ELSE /\ UNCHANGED verFile
                      /\ vresult' = [ran |-> TRUE, before |-> data, after |-> data,
                                     removed |-> 0, at |-> now, io |-> ~shrinks,
                                     errors |-> IF shrinks THEN 1 ELSE 0]
    /\ lastLookup' = NoLookup
    /\ UNCHANGED << now, vpc, vlocal, vver, vcanceled, vmutex, vstats >>
    /\ UNCHANGED discVars
    /\ UNCHANGED storeVars
    /\ UNCHANGED supVars
    /\ UNCHANGED probeVars
    /\ UNCHANGED validVars
    /\ UNCHANGED invalVars
    /\ UNCHANGED scanVars
    /\ UNCHANGED nkVars

\* time passes between version checks: a day, or a whole expiry period (a check
\* itself lasts seconds)
VTick ==
    /\ \A w \in Workers : vpc[w] = "idle"
    /\ Ticks(now) < MaxTicks
    /\ \E d \in { 1, CACHE_EXPIRY_DAYS } : now' = now + d
    /\ lastLookup' = NoLookup
    /\ vresult' = NoCleanup
    /\ UNCHANGED << verFile, vpc, vlocal, vver, vcanceled, vmutex, vstats >>
    /\ UNCHANGED discVars
    /\ UNCHANGED storeVars
    /\ UNCHANGED supVars
    /\ UNCHANGED probeVars
    /\ UNCHANGED validVars
    /\ UNCHANGED invalVars
    /\ UNCHANGED scanVars
    /\ UNCHANGED nkVars

\* the version store found on disk when the program starts
InitialVerFiles ==
    { NoVerFile,
      [exists |-> TRUE, data |-> (cache_key(P1) :> BadEntry)] }

----------------------------------------------------------------------------
(* CacheManager: one instance, whose operations exclude one another *)

\* the interpreter paths the caller asks about
Cmds == { P1, P2 }

\* how a write of a cache file can end: written, not opened at all, or opened
\* (and so truncated) and then failed
WriteOutcomes == { "ok", "unchanged", "truncated" }

Bump(st, counter) == [st EXCEPT ![counter] = @ + 1]

NoOp ==
    [op |-> "none", cmd |-> NoPath, kind |-> "none", value |-> << "None", "None" >>,
     list |-> << >>, found |-> FALSE, ok |-> TRUE, removed |-> 0,
     statsBefore |-> ZeroStats,
     dataBefore |-> EmptyData, cleared |-> FALSE]

\* the operations done on the instance since its counters were last zero
OpsDone == stats.hits + stats.misses + stats.writes + stats.errors

\* what get_cached_versions finds for a key, in the order in which it looks
StoreKind(f, c, k, t) ==
    IF ~f.exists THEN "missing"
    ELSE IF "versions" \in c THEN "corrupt"
    ELSE IF k \notin DOMAIN f.data THEN "nokey"
    ELSE IF ~f.data[k].parsed THEN "unparseable"
    ELSE IF Expired(t - f.data[k].timestamp) THEN "expired"
    ELSE "valid"

\* the counter get_cached_versions increments
GetCounter(kind) ==
    IF kind = "valid" THEN "hits" ELSE IF kind = "corrupt" THEN "errors" ELSE "misses"

\* get_cached_versions with the miss of an unparseable timestamp not returning
GetStatsFallThrough(st, kind) ==
    IF kind = "unparseable" THEN Bump(Bump(st, "misses"), "hits")
    ELSE Bump(st, GetCounter(kind))

\* the counters after a lookup
GetStats(st, kind) == Bump(st, GetCounter(kind))

\* what get_cached_python_paths finds, in the order in which it looks
PathsKind(f, c, t) ==
    IF ~f.exists THEN "missing"
    ELSE IF Expired(t - f.mtime) THEN "expired"
    ELSE IF "paths" \in c THEN "corrupt"
    ELSE "valid"

\* a cache file after a write that ended as out; data is what a success leaves
AfterWrite(f, data, out) ==
    IF out = "ok" THEN [exists |-> TRUE, data |-> data]
    ELSE IF out = "truncated" THEN [exists |-> TRUE, data |-> EmptyData]
    ELSE f

\* the undeserializable files after a write of file name that ended as out
CorruptAfter(c, name, out) ==
    IF out = "ok" THEN c \ { name }
    ELSE IF out = "truncated" THEN c \cup { name }
    ELSE c

\* get_cached_versions(python_cmd)
SGet(cmd) ==
    /\ OpsDone < MaxOps
    /\ LET k == cache_key(cmd)
           kind == StoreKind(verFile, corrupt, k, now)
       IN  /\ \E out \in WriteOutcomes :
                 /\ kind # "expired" => out = "unchanged"
                 /\ verFile' = IF kind = "expired"
                                  THEN AfterWrite(verFile, Del(verFile.data, k), out)
                                  ELSE verFile
                 /\ corrupt' = IF kind = "expired"
                                  THEN CorruptAfter(corrupt, "versions", out)
                                  ELSE corrupt
           /\ stats' = GetStats(stats, kind)
           /\ sop' = [NoOp EXCEPT
                         !.op = "get", !.cmd = cmd, !.kind = kind,
                         !.found = (kind = "valid"),
                         !.value = IF kind = "valid"
                                      THEN << verFile.data[k].python_version,
                                              verFile.data[k].nuitka_version >>
                                      ELSE << "None", "None" >>,
                         !.statsBefore = stats,
                         !.dataBefore = IF kind \in { "missing", "corrupt" }
                                           THEN EmptyData ELSE verFile.data,
                         !.cleared = sop.cleared]
    /\ UNCHANGED << now, host, pathsFile, pkFile, pc, force, is_running, timedOut,
                    environments, python_paths, pathIdx, sigCompleted, sigFailed,
                    run, lastLookup, stopAt, scanned, saveOk, fileAtStart, prev,
                    rootTouched >>
    /\ UNCHANGED << vpc, vlocal, vver, vcanceled, vmutex, vstats, vresult >>
    /\ UNCHANGED supVars
    /\ UNCHANGED probeVars
    /\ UNCHANGED validVars
    /\ UNCHANGED invalVars
    /\ UNCHANGED scanVars
    /\ UNCHANGED nkVars

\* get_cached_python_paths()
SGetPaths ==
    /\ OpsDone < MaxOps
    /\ LET kind == PathsKind(pathsFile, corrupt, now)
       IN  /\ stats' = GetStats(stats, kind)
           /\ sop' = [NoOp EXCEPT
                         !.op = "getPaths", !.kind = kind, !.found = (kind = "valid"),
                         !.list = IF kind = "valid" THEN pathsFile.data ELSE << >>,
                         !.statsBefore = stats, !.cleared = sop.cleared]
    /\ UNCHANGED << now, host, pathsFile, pkFile, pc, force, is_running, timedOut,
                    environments, python_paths, pathIdx, sigCompleted, sigFailed,
                    run, lastLookup, stopAt, scanned, saveOk, fileAtStart, prev,
                    rootTouched >>
    /\ UNCHANGED << verFile, vpc, vlocal, vver, vcanceled, vmutex, vstats, vresult,
                    corrupt >>
    /\ UNCHANGED supVars
    /\ UNCHANGED probeVars
    /\ UNCHANGED validVars
    /\ UNCHANGED invalVars
    /\ UNCHANGED scanVars
    /\ UNCHANGED nkVars

\* time passes: a day, or a whole expiry period
STick ==
    /\ Ticks(now) < MaxTicks
    /\ \E d \in { 1, CACHE_EXPIRY_DAYS } : now' = now + d
    /\ sop' = [NoOp EXCEPT !.cleared = sop.cleared]
    /\ UNCHANGED << host, pathsFile, pkFile, pc, force, is_running, timedOut,
                    environments, python_paths, pathIdx, sigCompleted, sigFailed,
                    stats, run, lastLookup, stopAt, scanned, saveOk, fileAtStart,
                    prev, rootTouched >>
    /\ UNCHANGED << verVars, corrupt >>
    /\ UNCHANGED supVars
    /\ UNCHANGED probeVars
    /\ UNCHANGED validVars
    /\ UNCHANGED invalVars
    /\ UNCHANGED scanVars
    /\ UNCHANGED nkVars

\* save_cached_versions writing the new entry alone, without the data it read
save_entry_alone(d, k, e) == Put(EmptyData, k, e)

\* save_cached_versions: the entry is set in the data read from the file
save_entry(d, k, e) == Put(d, k, e)

\* the values a caller saves
PutValues == { << "None", "None" >>, << "3.11", "2.8" >> }

\* save_cached_versions(python_cmd, python_version, nuitka_version)
SPut(cmd, v) ==
    /\ OpsDone < MaxOps
    /\ LET k == cache_key(cmd)
           cache_data == IF verFile.exists /\ "versions" \notin corrupt
                            THEN verFile.data ELSE EmptyData
       IN  \E out \in WriteOutcomes :
              /\ verFile' = AfterWrite(verFile,
                                       save_entry(cache_data, k, Entry(v[1], v[2], now)),
                                       out)
              /\ corrupt' = CorruptAfter(corrupt, "versions", out)
              /\ stats' = Bump(stats, IF out = "ok" THEN "writes" ELSE "errors")
              /\ sop' = [NoOp EXCEPT
                            !.op = "put", !.cmd = cmd, !.value = v, !.ok = (out = "ok"),
                            !.statsBefore = stats, !.dataBefore = cache_data]
    /\ UNCHANGED << now, host, pathsFile, pkFile, pc, force, is_running, timedOut,
                    environments, python_paths, pathIdx, sigCompleted, sigFailed,
                    run, lastLookup, stopAt, scanned, saveOk, fileAtStart, prev,
                    rootTouched >>
    /\ UNCHANGED << vpc, vlocal, vver, vcanceled, vmutex, vstats, vresult >>
    /\ UNCHANGED supVars
    /\ UNCHANGED probeVars
    /\ UNCHANGED validVars
    /\ UNCHANGED invalVars
    /\ UNCHANGED scanVars
    /\ UNCHANGED nkVars

\* the lists a caller saves
PutLists == { << >>, << P1 >> }

\* save_cached_python_paths(python_paths)
SPutPaths(list) ==
    /\ OpsDone < MaxOps
    /\ \E out \in WriteOutcomes :
          /\ pathsFile' = IF out = "ok" THEN Written(list, now)
                          ELSE IF out = "truncated" THEN Written(<< >>, now)
                          ELSE pathsFile
          /\ corrupt' = CorruptAfter(corrupt, "paths", out)
          /\ stats' = Bump(stats, IF out = "ok" THEN "writes" ELSE "errors")
          /\ sop' = [NoOp EXCEPT
                        !.op = "putPaths", !.list = list, !.ok = (out = "ok"),
                        !.statsBefore = stats]
    /\ UNCHANGED << now, host, pkFile, pc, force, is_running, timedOut,
                    environments, python_paths, pathIdx, sigCompleted, sigFailed,
                    run, lastLookup, stopAt, scanned, saveOk, fileAtStart, prev,
                    rootTouched >>
    /\ UNCHANGED verVars
    /\ UNCHANGED supVars
    /\ UNCHANGED probeVars
    /\ UNCHANGED validVars
    /\ UNCHANGED invalVars
    /\ UNCHANGED scanVars
    /\ UNCHANGED nkVars

\* cleanup_expired_cache: the counters after the call
ExpireStatsReset(st, failed) == IF failed THEN ZeroStats ELSE st

ExpireStats(st, failed) == IF failed THEN Bump(st, "errors") ELSE st

\* cleanup_expired_cache()
SExpire ==
    /\ LET readable == verFile.exists /\ "versions" \notin corrupt
           data == IF readable THEN verFile.data ELSE EmptyData
           valid_entries ==
               Restrict(data, { k \in DOMAIN data : Retained(data[k], now) })
           shrinks == Cardinality(DOMAIN valid_entries) < Cardinality(DOMAIN data)
       IN  \E out \in WriteOutcomes :
              LET failed == (verFile.exists /\ ~readable) \/ (shrinks /\ out # "ok")
              IN  /\ ~shrinks => out = "unchanged"
                  /\ failed => OpsDone < MaxOps
                  /\ verFile' = IF shrinks THEN AfterWrite(verFile, valid_entries, out)
                                           ELSE verFile
                  /\ corrupt' = IF shrinks THEN CorruptAfter(corrupt, "versions", out)
                                           ELSE corrupt
                  /\ stats' = ExpireStats(stats, failed)
                  /\ sop' = [NoOp EXCEPT
                                !.op = "expire", !.ok = ~failed,
                                !.removed = IF shrinks /\ out = "ok"
                                               THEN Cardinality(DOMAIN data)
                                                    - Cardinality(DOMAIN valid_entries)
                                               ELSE 0,
                                !.statsBefore = stats, !.dataBefore = data,
                                !.cleared = sop.cleared]
    /\ UNCHANGED << now, host, pathsFile, pkFile, pc, force, is_running, timedOut,
                    environments, python_paths, pathIdx, sigCompleted, sigFailed,
                    run, lastLookup, stopAt, scanned, saveOk, fileAtStart, prev,
                    rootTouched >>
    /\ UNCHANGED << vpc, vlocal, vver, vcanceled, vmutex, vstats, vresult >>
    /\ UNCHANGED supVars
    /\ UNCHANGED probeVars
    /\ UNCHANGED validVars
    /\ UNCHANGED invalVars
    /\ UNCHANGED scanVars
    /\ UNCHANGED nkVars

\* which of the two cache files exist
FilesPresent(fv, fp) ==
    IF fv.exists THEN ( IF fp.exists THEN "both" ELSE "versions" )
    ELSE ( IF fp.exists THEN "paths" ELSE "neither" )

\* clear_cache with os.remove called on a file whether or not it exists
ClearOutcomesNoExistsCheck(fv, fp) ==
    IF ~fv.exists THEN { "failVersions" }
    ELSE IF ~fp.exists THEN { "failPaths" }
    ELSE { "ok", "failVersions", "failPaths" }

\* clear_cache: os.remove is called on the files that exist, and can fail on each
ClearOutcomes(fv, fp) ==
    { "ok" } \cup ( IF fv.exists THEN { "failVersions" } ELSE { } )
             \cup ( IF fp.exists THEN { "failPaths" } ELSE { } )

\* clear_cache()
SClear ==
    /\ \E out \in ClearOutcomes(verFile, pathsFile) :
          /\ out # "ok" => OpsDone < MaxOps
          /\ verFile' = IF out = "failVersions" THEN verFile ELSE NoVerFile
          /\ pathsFile' = IF out = "ok" THEN NoFile ELSE pathsFile
          /\ corrupt' = IF out = "ok" THEN { }
                        ELSE IF out = "failPaths" THEN corrupt \ { "versions" }
                        ELSE corrupt
          /\ stats' = IF out = "ok" THEN ZeroStats ELSE Bump(stats, "errors")
          /\ sop' = [NoOp EXCEPT
                        !.op = "clear", !.kind = FilesPresent(verFile, pathsFile),
                        !.ok = (out = "ok"), !.statsBefore = stats,
                        !.cleared = (out = "ok")]
    /\ UNCHANGED << now, host, pkFile, pc, force, is_running, timedOut,
                    environments, python_paths, pathIdx, sigCompleted, sigFailed,
                    run, lastLookup, stopAt, scanned, saveOk, fileAtStart, prev,
                    rootTouched >>
    /\ UNCHANGED << vpc, vlocal, vver, vcanceled, vmutex, vstats, vresult >>
    /\ UNCHANGED supVars
    /\ UNCHANGED probeVars
    /\ UNCHANGED validVars
    /\ UNCHANGED invalVars
    /\ UNCHANGED scanVars
    /\ UNCHANGED nkVars

StoreIdle ==
    /\ corrupt = { }
    /\ sop = NoOp

----------------------------------------------------------------------------
(* ThreadManager and the threads NuitkaPackager starts *)

\* the thread ids callers pass to create_thread
Ids == { "python_detection", "other" }

NoThreads == [id \in { } |-> 0]

\* a QThread object: its class, whether it was started and has ended, whether
\* cancel() was called on it, the thread_id its finished signal is connected
\* with (none for a thread made outside the manager), and whether the call of
\* _on_thread_finished for it is pending
Thread(kind, state, tid) ==
    [kind |-> kind, state |-> state, signalled |-> FALSE, tid |-> tid, cb |-> FALSE]

\* the thread classes of the program; each defines cancel()
ThreadClasses ==
    { "PythonDetectionThread", "VersionCheckThread", "NuitkaDetectionThread",
      "DependencyScanThread" }

\* hasattr(thread, 'cancel')
hasattr_cancel(t) == t.kind \in ThreadClasses

isRunning(t) == t.state = "running"

isFinished(t) == t.state = "finished"

\* the discovery workers that are running
RunningDetections ==
    { i \in 1..Len(thr) : thr[i].kind = "PythonDetectionThread" /\ isRunning(thr[i]) }

\* a create_thread that reaps nothing
cleanup_nothing(m) == m

\* _cleanup_finished_threads
cleanup_finished_threads(m) ==
    Restrict(m, { id \in DOMAIN m : ~( ~isRunning(thr[m[id]]) /\ isFinished(thr[m[id]]) ) })

\* create_thread(thread_class, thread_id)
create_thread(kind, id) ==
    /\ thread_lock = "free"
    /\ Len(thr) < MaxThreads
    /\ thr' = Append(thr, Thread(kind, "new", id))
    /\ active_threads' = Put(cleanup_finished_threads(active_threads), id, Len(thr) + 1)

\* start_thread(thread_id)
start_thread(id) ==
    /\ thread_lock = "free"
    /\ id \in DOMAIN active_threads
    /\ ~isRunning(thr[active_threads[id]])
    /\ thr' = [thr EXCEPT ![active_threads[id]].state = "running"]
    /\ UNCHANGED << active_threads, thread_lock, cq, csnap, creturned,
                    python_detection_thread, started >>
    /\ UNCHANGED << now, lastLookup, discVars, verVars, storeVars, probeVars,
                    validVars, invalVars,
                    scanVars, nkVars >>

\* NuitkaPackager.__init__: the start-up discovery is created through the manager
\* and started
AppInit ==
    /\ ~started
    /\ thread_lock = "free"
    /\ Len(thr) < MaxThreads
    /\ thr' = Append(thr, Thread("PythonDetectionThread", "running", "python_detection"))
    /\ active_threads' = Put(cleanup_finished_threads(active_threads),
                             "python_detection", Len(thr) + 1)
    /\ started' = TRUE
    /\ UNCHANGED << thread_lock, cq, csnap, creturned, python_detection_thread >>
    /\ UNCHANGED << now, lastLookup, discVars, verVars, storeVars, probeVars,
                    validVars, invalVars,
                    scanVars, nkVars >>

\* a caller of the manager creates a thread of another class
Spawn(id) ==
    /\ create_thread("DependencyScanThread", id)
    /\ UNCHANGED << thread_lock, cq, csnap, creturned, python_detection_thread, started >>
    /\ UNCHANGED << now, lastLookup, discVars, verVars, storeVars, probeVars,
                    validVars, invalVars,
                    scanVars, nkVars >>

\* start_python_detection: the request of the detect button
StartPythonDetection ==
    /\ started
    /\ thread_lock = "free"
    /\ ~( python_detection_thread # 0 /\ isRunning(thr[python_detection_thread]) )
    /\ Len(thr) < MaxThreads
    /\ thr' = Append(thr, Thread("PythonDetectionThread", "running", "none"))
    /\ python_detection_thread' = Len(thr) + 1
    /\ UNCHANGED << active_threads, thread_lock, cq, csnap, creturned, started >>
    /\ UNCHANGED << now, lastLookup, discVars, verVars, storeVars, probeVars,
                    validVars, invalVars,
                    scanVars, nkVars >>

\* _on_detection_completed: the version check is created and started directly
StartVersionCheck ==
    /\ started
    /\ thread_lock = "free"
    /\ \A i \in 1..Len(thr) : thr[i].kind = "VersionCheckThread" => ~isRunning(thr[i])
    /\ Len(thr) < MaxThreads
    /\ thr' = Append(thr, Thread("VersionCheckThread", "running", "none"))
    /\ UNCHANGED << active_threads, thread_lock, cq, csnap, creturned,
                    python_detection_thread, started >>
    /\ UNCHANGED << now, lastLookup, discVars, verVars, storeVars, probeVars,
                    validVars, invalVars,
                    scanVars, nkVars >>

\* run() of a thread returns: the thread is finished and its finished signal is
\* queued for the thread of the manager
ThreadRunEnds(i) ==
    /\ i <= Len(thr)
    /\ isRunning(thr[i])
    /\ thr' = [thr EXCEPT ![i].state = "finished", ![i].cb = (thr[i].tid # "none")]
    /\ UNCHANGED << active_threads, thread_lock, cq, csnap, creturned,
                    python_detection_thread, started >>
    /\ UNCHANGED << now, lastLookup, discVars, verVars, storeVars, probeVars,
                    validVars, invalVars,
                    scanVars, nkVars >>

\* _on_thread_finished(thread_id), for the finished signal of thread i
on_thread_finished(i) ==
    /\ i <= Len(thr)
    /\ thr[i].cb
    /\ thread_lock = "free"
    /\ thr' = [thr EXCEPT ![i].cb = FALSE]
    /\ LET id == thr[i].tid
       IN  active_threads' =
               IF id \in DOMAIN active_threads /\ isFinished(thr[active_threads[id]])
                  THEN Del(active_threads, id)
                  ELSE active_threads
    /\ UNCHANGED << thread_lock, cq, csnap, creturned, python_detection_thread, started >>
    /\ UNCHANGED << now, lastLookup, discVars, verVars, storeVars, probeVars,
                    validVars, invalVars,
                    scanVars, nkVars >>

\* cancel_all_threads: the lock is taken and the iteration over the map begins
CancelBegin ==
    /\ thread_lock = "free"
    /\ thread_lock' = "cancel_all"
    /\ LET handles == { active_threads[id] : id \in DOMAIN active_threads }
       IN  /\ csnap' = handles
           /\ \E order \in Perms(handles) : cq' = order
    /\ creturned' = FALSE
    /\ UNCHANGED << thr, active_threads, python_detection_thread, started >>
    /\ UNCHANGED << now, lastLookup, discVars, verVars, storeVars, probeVars,
                    validVars, invalVars,
                    scanVars, nkVars >>

\* cancel_all_threads leaving the loop when a thread outlives its wait
AfterWaitAbandon(rest, inTime) == IF inTime THEN rest ELSE << >>

\* cancel_all_threads: after thread.wait(1000) the loop goes on with the next handle
AfterWait(rest, inTime) == rest

\* a stop() whose QCoreApplication.processEvents() runs
processEvents_runs == TRUE

\* PythonDetectionThread.stop: QCoreApplication is imported nowhere, the call
\* raises NameError inside the try and no event is processed
processEvents_in_stop == FALSE

\* the calls of _on_thread_finished that wait to be delivered
PendingCallbacks == { i \in 1..Len(thr) : thr[i].cb }

\* cancel() of a PythonDetectionThread is stop(); if stop() processed events
\* while cancel_all_threads holds thread_lock, a call of _on_thread_finished
\* queued for the main thread would lock the QMutex a second time.  Whether
\* the lambda is called in the main thread or in the thread that emits
\* finished is left open.
stop_dispatches(t, in_main_thread) ==
    /\ t.kind = "PythonDetectionThread"
    /\ processEvents_in_stop
    /\ in_main_thread
    /\ PendingCallbacks # { }

\* cancel_all_threads: one handle is cancelled and, if running, waited for
CancelStep ==
    /\ thread_lock = "cancel_all"
    /\ cq # << >>
    /\ LET h == Head(cq)
       IN  \E inTime, in_main_thread \in BOOLEAN :
              /\ ~isRunning(thr[h]) => inTime
              /\ IF stop_dispatches(thr[h], in_main_thread)
                    THEN /\ thread_lock' = "locked_twice"
                         /\ UNCHANGED << thr, cq >>
                    ELSE /\ thr' = [thr EXCEPT
                                       ![h].signalled = hasattr_cancel(thr[h]) \/ @,
                                       ![h].state = IF isRunning(thr[h]) /\ inTime
                                                       THEN "finished" ELSE @,
                                       ![h].cb = IF isRunning(thr[h]) /\ inTime
                                                    THEN (thr[h].tid # "none") ELSE @]
                         /\ cq' = AfterWait(Tail(cq), inTime)
                         /\ UNCHANGED thread_lock
    /\ UNCHANGED << active_threads, csnap, creturned,
                    python_detection_thread, started >>
    /\ UNCHANGED << now, lastLookup, discVars, verVars, storeVars, probeVars,
                    validVars, invalVars,
                    scanVars, nkVars >>

\* cancel_all_threads: the loop is over, the lock is released
CancelEnd ==
    /\ thread_lock = "cancel_all"
    /\ cq = << >>
    /\ thread_lock' = "free"
    /\ creturned' = TRUE
    /\ UNCHANGED << thr, active_threads, cq, csnap, python_detection_thread, started >>
    /\ UNCHANGED << now, lastLookup, discVars, verVars, storeVars, probeVars,
                    validVars, invalVars,
                    scanVars, nkVars >>

SupIdle ==
    /\ thr = << >>
    /\ active_threads = NoThreads
    /\ thread_lock = "free"
    /\ cq = << >>
    /\ csnap = { }
    /\ creturned = FALSE
    /\ python_detection_thread = 0
    /\ started = FALSE

----------------------------------------------------------------------------
(* VersionCheckThread.run followed from the invocations to the signal *)

\* how subprocess.run of one probe can end, with what the process wrote
PythonRuns ==
    { [rc |-> "spawn_failed", out |-> ""], [rc |-> "nonzero", out |-> "error"],
      [rc |-> "ok", out |-> "Python 3.11"] }

NuitkaRuns ==
    { [rc |-> "spawn_failed", out |-> ""], [rc |-> "nonzero", out |-> "error"],
      [rc |-> "ok", out |-> "Nuitka v2.8"] }

NoRunResult == [rc |-> "none", out |-> ""]

\* the process was spawned and does not exit; subprocess.run is called
\* without timeout and waits for it
NeverExits == [rc |-> "never_exits", out |-> ""]

\* where run() is after an invocation that ended as r
AfterInvocation(r, next) == IF r = NeverExits THEN "blocked" ELSE next

\* version[7:] when the output starts with "Python "
StripPython(out) == IF out = "Python 3.11" THEN "3.11" ELSE out

\* replace("Nuitka ", ""), then the leading v removed
StripNuitka(out) == IF out = "Nuitka v2.8" THEN "2.8" ELSE out

\* a probe that returns what the process wrote whatever its return code
version_ignoring_returncode(r, strip) ==
    IF r.rc = "spawn_failed" THEN "None" ELSE strip

\* _get_python_version, _get_nuitka_version: the cleaned output when
\* returncode == 0, None when the process could not be run or failed
probe_version(r, strip) == IF r.rc = "ok" THEN strip ELSE "None"

_get_python_version(r) == probe_version(r, StripPython(r.out))

_get_nuitka_version(r) == probe_version(r, StripNuitka(r.out))

NoRun ==
    [pc |-> "idle", cmd |-> NoPath, py |-> NoRunResult, nk |-> NoRunResult,
     python_version |-> "None", nuitka_version |-> "None", canceled |-> FALSE,
     emitted |-> "none", args |-> << "None", "None" >>]

ProbeIdle == vrun = NoRun

\* VersionCheckThread(python_cmd) is created, with a CacheManager of its own,
\* and started
VersionCheckStart(cmd) ==
    /\ vrun.pc \in { "idle", "ended" }
    /\ vrun' = [NoRun EXCEPT !.pc = "lookup", !.cmd = cmd]
    /\ stats' = ZeroStats
    /\ sop' = NoOp
    /\ UNCHANGED << now, verFile, corrupt >>
    /\ UNCHANGED << host, pathsFile, pkFile, pc, force, is_running, timedOut,
                    environments, python_paths, pathIdx, sigCompleted, sigFailed,
                    run, lastLookup, stopAt, scanned, saveOk, fileAtStart, prev,
                    rootTouched >>
    /\ UNCHANGED << vpc, vlocal, vver, vcanceled, vmutex, vstats, vresult >>
    /\ UNCHANGED supVars
    /\ UNCHANGED validVars
    /\ UNCHANGED invalVars
    /\ UNCHANGED scanVars
    /\ UNCHANGED nkVars

\* run: the cache is asked first, and a cached pair that is not (None, None)
\* is emitted as cache_hit
RunLookup ==
    /\ vrun.pc = "lookup"
    /\ LET k == cache_key(vrun.cmd)
           kind == StoreKind(verFile, corrupt, k, now)
           cached == IF kind = "valid"
                        THEN << verFile.data[k].python_version,
                                verFile.data[k].nuitka_version >>
                        ELSE << "None", "None" >>
       IN  /\ \E out \in WriteOutcomes :
                 /\ kind # "expired" => out = "unchanged"
                 /\ verFile' = IF kind = "expired"
                                  THEN AfterWrite(verFile, Del(verFile.data, k), out)
                                  ELSE verFile
                 /\ corrupt' = IF kind = "expired"
                                  THEN CorruptAfter(corrupt, "versions", out)
                                  ELSE corrupt
           /\ stats' = GetStats(stats, kind)
           /\ vrun' = IF cached # << "None", "None" >>
                         THEN [vrun EXCEPT !.pc = "ended", !.emitted = "cache_hit",
                                           !.args = cached]
                         ELSE [vrun EXCEPT !.pc = "python"]
    /\ UNCHANGED << now, sop >>
    /\ UNCHANGED << host, pathsFile, pkFile, pc, force, is_running, timedOut,
                    environments, python_paths, pathIdx, sigCompleted, sigFailed,
                    run, lastLookup, stopAt, scanned, saveOk, fileAtStart, prev,
                    rootTouched >>
    /\ UNCHANGED << vpc, vlocal, vver, vcanceled, vmutex, vstats, vresult >>
    /\ UNCHANGED supVars
    /\ UNCHANGED validVars
    /\ UNCHANGED invalVars
    /\ UNCHANGED scanVars
    /\ UNCHANGED nkVars

\* run: python_version = self._get_python_version()
RunPython ==
    /\ vrun.pc = "python"
    /\ \E r \in PythonRuns \cup { NeverExits } :
          vrun' = [vrun EXCEPT !.py = r, !.python_version = _get_python_version(r),
                               !.pc = AfterInvocation(r, "nuitka")]
    /\ UNCHANGED << now, lastLookup, discVars, verVars, storeVars, supVars,
                    validVars, invalVars,
                    scanVars, nkVars >>

\* run: nuitka_version = self._get_nuitka_version()
RunNuitka ==
    /\ vrun.pc = "nuitka"
    /\ \E r \in NuitkaRuns \cup { NeverExits } :
          vrun' = [vrun EXCEPT !.nk = r, !.nuitka_version = _get_nuitka_version(r),
                               !.pc = AfterInvocation(r, "save")]
    /\ UNCHANGED << now, lastLookup, discVars, verVars, storeVars, supVars,
                    validVars, invalVars,
                    scanVars, nkVars >>

\* run: the pair is saved unless the thread was cancelled
RunSave ==
    /\ vrun.pc = "save"
    /\ LET k == cache_key(vrun.cmd)
           cache_data == IF verFile.exists /\ "versions" \notin corrupt
                            THEN verFile.data ELSE EmptyData
           e == Entry(vrun.python_version, vrun.nuitka_version, now)
       IN  IF vrun.canceled
              THEN UNCHANGED << verFile, corrupt, stats >>
              ELSE \E out \in WriteOutcomes :
                      /\ verFile' = AfterWrite(verFile, save_entry(cache_data, k, e), out)
                      /\ corrupt' = CorruptAfter(corrupt, "versions", out)
                      /\ stats' = Bump(stats, IF out = "ok" THEN "writes" ELSE "errors")
    /\ vrun' = [vrun EXCEPT !.pc = "emit"]
    /\ UNCHANGED << now, sop >>
    /\ UNCHANGED << host, pathsFile, pkFile, pc, force, is_running, timedOut,
                    environments, python_paths, pathIdx, sigCompleted, sigFailed,
                    run, lastLookup, stopAt, scanned, saveOk, fileAtStart, prev,
                    rootTouched >>
    /\ UNCHANGED << vpc, vlocal, vver, vcanceled, vmutex, vstats, vresult >>
    /\ UNCHANGED supVars
    /\ UNCHANGED validVars
    /\ UNCHANGED invalVars
    /\ UNCHANGED scanVars
    /\ UNCHANGED nkVars

\* run: version_check_completed is emitted unless the thread was cancelled
RunEmit ==
    /\ vrun.pc = "emit"
    /\ vrun' = IF vrun.canceled
                  THEN [vrun EXCEPT !.pc = "ended"]
                  ELSE [vrun EXCEPT !.pc = "ended",
                                    !.emitted = "version_check_completed",
                                    !.args = << vrun.python_version,
                                                vrun.nuitka_version >>]
    /\ UNCHANGED << now, lastLookup, discVars, verVars, storeVars, supVars,
                    validVars, invalVars,
                    scanVars, nkVars >>

\* VersionCheckThread.cancel, from the main thread
RunCancel ==
    /\ vrun.pc \in { "lookup", "python", "nuitka", "save", "emit", "blocked" }
    /\ ~vrun.canceled
    /\ vrun' = [vrun EXCEPT !.canceled = TRUE]
    /\ UNCHANGED << now, lastLookup, discVars, verVars, storeVars, supVars,
                    validVars, invalVars,
                    scanVars, nkVars >>

----------------------------------------------------------------------------
(* The two _is_valid_virtual_environment, as functions of what is on disk *)

Platforms == { "Windows", "Linux" }

\* what the validators look for in a directory: pyvenv.cfg, conda-meta,
\* the site-packages directory, pip, the activation script, and the marks of
\* a conda base installation
StandardMarkers == { "pyvenv.cfg", "conda-meta", "site-packages", "pip", "activate" }

CondaBaseMarkers == { "conda.exe", "condabin", "Library" }

Markers == StandardMarkers \cup CondaBaseMarkers

MarkerSets == { S \in SUBSET Markers : Cardinality(S) <= MaxMarkers }

\* basename of the parent of the interpreter's directory, lower-cased
ParentNames == { "scripts", "envs", "other" }

\* a candidate: python_is_file is os.path.isfile(python_path), dir what
\* dirname(python_path) holds, parent what its parent holds, and
\* scripts_python is os.path.isfile(env_root\Scripts\python.exe)
Candidates ==
    [platform : Platforms, parent_name : ParentNames, python_is_file : BOOLEAN,
     scripts_python : BOOLEAN, dir : MarkerSets, parent : MarkerSets]

is_conda_base(m) == m \cap CondaBaseMarkers # { }

\* NuitkaPackager._is_valid_virtual_environment: the markers of venv_dir
venv_dir(c) ==
    IF c.platform = "Windows"
       THEN IF c.parent_name = "scripts" THEN c.parent
            ELSE IF c.parent_name = "envs" THEN c.dir
            ELSE IF is_conda_base(c.dir) THEN c.dir
            ELSE c.parent
       ELSE c.parent

\* a last test that accepts whatever the directory holds
other_result_always(m) == TRUE

\* result = has_site_packages or has_pip or has_activate
other_result(m) == m \cap { "site-packages", "pip", "activate" } # { }

\* NuitkaPackager._is_valid_virtual_environment(python_path); off Windows the
\* site-packages test calls glob, which is not a name of the module, and the
\* NameError is caught by the except branch, which returns False
NuitkaPackager_is_valid_virtual_environment(c) ==
    LET root == venv_dir(c)
    IN  IF ~c.python_is_file THEN FALSE
        ELSE IF "pyvenv.cfg" \in root THEN TRUE
        ELSE IF "conda-meta" \in root THEN TRUE
        ELSE IF c.platform # "Windows" THEN FALSE
        ELSE IF is_conda_base(root) THEN TRUE
        ELSE other_result(root)

\* PythonDetectionThread._is_valid_virtual_environment(env_root), m being what
\* env_root holds
PythonDetectionThread_is_valid_virtual_environment(m, scripts_python) ==
    IF ~scripts_python THEN FALSE
    ELSE IF "pyvenv.cfg" \in m THEN TRUE
    ELSE IF "conda-meta" \in m THEN TRUE
    ELSE "site-packages" \in m

NoCandidate ==
    [platform |-> "Windows", parent_name |-> "other", python_is_file |-> FALSE,
     scripts_python |-> FALSE, dir |-> { }, parent |-> { }]

ValidIdle == val = [c |-> NoCandidate, asked |-> FALSE, packager |-> FALSE,
                    thread |-> FALSE]

\* both validators are asked about the candidate
Validate ==
    /\ ~val.asked
    /\ val' = [val EXCEPT
                  !.asked = TRUE,
                  !.packager = NuitkaPackager_is_valid_virtual_environment(val.c),
                  !.thread = PythonDetectionThread_is_valid_virtual_environment(
                                 venv_dir(val.c), val.c.scripts_python)]
    /\ UNCHANGED << now, lastLookup, discVars, verVars, storeVars, supVars,
                    probeVars, invalVars,
                    scanVars, nkVars >>

----------------------------------------------------------------------------
(* NuitkaPackager._is_cache_valid and its caller auto_detect_python *)

\* last_detection_timestamp.txt: absent, not a number, or read
TimestampStates == { "missing", "unreadable", "ok" }

\* the block on environment variables (4956-4986): it finds nothing, returns
\* False, or raises
EnvCheckOutcomes == { "pass", "changed", "error" }

\* os.path.getmtime of an environment root: older than last_detection_time -
\* tolerance, newer, or an OSError
RootStates == { "old", "new", "error" }

\* the envs directory of an environment manager: absent, or as for a root
EnvsStates == { "absent", "old", "new", "error" }

\* a cached list of MaxCached paths and what the checks meet; manager_var_then
\* and manager_var_now say whether CONDA_PREFIX (or CONDA_HOME, MINICONDA_HOME,
\* MINIFORGE_HOME, MAMBA_HOME) was set when the cache was written and is set now
CacheChecks ==
    [is_list : BOOLEAN, timestamp : TimestampStates, env_check : EnvCheckOutcomes,
     roots : [1..MaxCached -> RootStates], envs : EnvsStates,
     manager_var_then : BOOLEAN, manager_var_now : BOOLEAN]

\* NuitkaPackager._get_cache_key: the key covers the manager variables
packager_cache_key(manager_var) == << "python_paths", manager_var >>

\* NuitkaPackager._load_from_cache(cache_key): the file name is fixed and the
\* key is not used
packager_load_from_cache(key, stored) == stored.data

\* NuitkaPackager._get_virtual_env_root: the root is returned when
\* self._is_valid_virtual_environment(env_root) holds, and that validator, asked
\* about a directory, fails its os.path.isfile test
env_root_found ==
    NuitkaPackager_is_valid_virtual_environment(
        [NoCandidate EXCEPT !.dir = Markers, !.parent = Markers])

\* mtime > last_detection_time - tolerance returns False; an exception of
\* getmtime is logged and the loop continues
mtime_invalidates(state) == state = "new"

\* _is_cache_valid(cached_paths)
is_cache_valid(c) ==
    IF ~c.is_list THEN FALSE
    ELSE IF c.timestamp # "ok" THEN FALSE
    ELSE IF c.env_check = "changed" THEN FALSE
    ELSE IF \E i \in 1..MaxCached : env_root_found /\ mtime_invalidates(c.roots[i])
         THEN FALSE
    ELSE IF c.envs # "absent" /\ mtime_invalidates(c.envs) THEN FALSE
    ELSE TRUE

NoCheck ==
    [is_list |-> TRUE, timestamp |-> "ok", env_check |-> "pass",
     roots |-> [i \in 1..MaxCached |-> "old"], envs |-> "absent",
     manager_var_then |-> FALSE, manager_var_now |-> FALSE]

NoAutoDetect ==
    [c |-> NoCheck, asked |-> FALSE, loaded |-> FALSE, valid |-> FALSE,
     rescanned |-> FALSE]

InvalIdle == inv = NoAutoDetect

\* auto_detect_python(force=False) with a non-empty list in python_paths_cache.pkl
auto_detect_python ==
    /\ ~inv.asked
    /\ LET stored == [key |-> packager_cache_key(inv.c.manager_var_then),
                      data |-> TRUE]
           cached_result ==
               packager_load_from_cache(packager_cache_key(inv.c.manager_var_now),
                                        stored)
           valid == cached_result /\ is_cache_valid(inv.c)
       IN  inv' = [inv EXCEPT !.asked = TRUE, !.loaded = cached_result,
                              !.valid = valid, !.rescanned = ~valid]
    /\ UNCHANGED << now, lastLookup, discVars, verVars, storeVars, supVars,
                    probeVars, validVars,
                    scanVars, nkVars >>

----------------------------------------------------------------------------
(* The two full scans, as functions of what each source yields *)

\* the sources that are enumerated by a listing that can raise
ListedSources ==
    { "conda_envs", "venv_dirs", "install_dirs", "registry", "manager_envs",
      "standalone_envs" }

\* a source holds no interpreter, holds one, or its enumeration raises
SourceStates == { "empty", "found", "fails" }

\* PythonDetectionThread: _detect_environments_combined and the registry scan
\* of _perform_full_python_detection, in the order in which they run
ThreadSources == << "conda_envs", "venv_dirs", "install_dirs", "registry" >>

\* NuitkaPackager._perform_full_detection, in the order in which it runs
PackagerSources == << "install_dirs", "registry", "manager_envs", "standalone_envs" >>

\* whether the enumeration of the source stands inside a try ... except
\* Exception of the worker thread's scan: every one does
thread_guarded(src) == TRUE

\* the same for the synchronous scan: os.listdir at 5265, 5466 and 5683 stands
\* in no try; _scan_windows_registry catches
packager_guarded(src) == src = "registry"

\* the interpreters of the sources that did not fail
Remaining(srcs, st) == { srcs[i] : i \in { j \in 1..Len(srcs) : st[srcs[j]] = "found" } }

\* a scan over srcs: an exception of a guarded source is logged and the scan
\* goes on; an exception of an unguarded one leaves the scan
full_scan(srcs, guarded, st) ==
    IF \E i \in 1..Len(srcs) : st[srcs[i]] = "fails" /\ ~guarded[srcs[i]]
       THEN [completed |-> FALSE, paths |-> { }]
       ELSE [completed |-> TRUE, paths |-> Remaining(srcs, st)]

NoScanResult == [completed |-> FALSE, paths |-> { }]

NoScan ==
    [st |-> [src \in ListedSources |-> "empty"], done |-> FALSE,
     thread |-> NoScanResult, packager |-> NoScanResult]

ScanIdle == scan = NoScan

\* both scans are run on the same machine
FullScans ==
    /\ ~scan.done
    /\ scan' = [scan EXCEPT
                   !.done = TRUE,
                   !.thread = full_scan(ThreadSources,
                                        [src \in ListedSources |-> thread_guarded(src)],
                                        scan.st),
                   !.packager = full_scan(PackagerSources,
                                          [src \in ListedSources |-> packager_guarded(src)],
                                          scan.st)]
    /\ UNCHANGED << now, lastLookup, discVars, verVars, storeVars, supVars,
                    probeVars, validVars, invalVars, nkVars >>

----------------------------------------------------------------------------
(* The machines the scanners may run on *)

Host(e, v, d, r) == [env |-> e, var |-> v, dirs |-> d, reg |-> r]

Hosts ==
    { Host(<< >>, NoPath, << NoPath, NoPath >>, << >>),
      Host(<< P3, P3 >>, P3, << NoPath, NoPath >>, << >>),
      Host(<< >>, NoPath, << P1, P2 >>, << P1 >>),
      Host(<< P3, P3 >>, NoPath, << P2, NoPath >>, << P1 >>),
      Host(<< >>, P3, << P2, NoPath >>, << >>) }

VerIdle ==
    /\ vpc = [w \in Workers |-> "idle"]
    /\ vlocal = [w \in Workers |-> EmptyData]
    /\ vver = [w \in Workers |-> << "None", "None" >>]
    /\ vcanceled = [w \in Workers |-> FALSE]
    /\ vmutex = [w \in Workers |-> FALSE]
    /\ vstats = [w \in Workers |-> ZeroStats]
    /\ vresult = NoCleanup

DiscIdle ==
    /\ pathsFile = NoFile
    /\ pkFile = NoFile
    /\ pc = "idle"
    /\ force = FALSE
    /\ is_running = TRUE
    /\ timedOut = FALSE
    /\ environments = << >>
    /\ python_paths = << >>
    /\ pathIdx = 1
    /\ sigCompleted = << >>
    /\ sigFailed = 0
    /\ stats = ZeroStats
    /\ run = 0
    /\ lastLookup = NoLookup
    /\ stopAt = "none"
    /\ scanned = FALSE
    /\ saveOk = "none"
    /\ fileAtStart = NoFile
    /\ prev = NoPrev
    /\ rootTouched = FALSE

Init ==
    /\ now = 0
    /\ host \in Hosts
    /\ DiscIdle
    /\ verFile = NoVerFile
    /\ VerIdle
    /\ StoreIdle
    /\ SupIdle
    /\ ProbeIdle
    /\ ValidIdle
    /\ InvalIdle
    /\ ScanIdle
    /\ NkIdle

Next ==
    \/ StartDetection
    \/ stop
    \/ TimeoutElapses
    \/ RunStart
    \/ ConsultCache
    \/ ScanEnv
    \/ Check1604
    \/ ScanVars
    \/ ScanPathDir
    \/ ScanReg
    \/ SaveCache
    \/ Check1231
    \/ SortEmit
    \/ RunException
    \/ OnDetectionCompleted
    \/ OnPythonDetectionCompleted
    \/ OnDetectionFailed
    \/ ThreadFinishedSilently
    \/ CheckNuitkaInstallation
    \/ Tick
    \/ TouchRoot

Spec == Init /\ [][Next]_vars

InitCache ==
    /\ now = 0
    /\ host = Host(<< >>, NoPath, << NoPath, NoPath >>, << >>)
    /\ DiscIdle
    /\ verFile \in InitialVerFiles
    /\ VerIdle
    /\ StoreIdle
    /\ SupIdle
    /\ ProbeIdle
    /\ ValidIdle
    /\ InvalIdle
    /\ ScanIdle
    /\ NkIdle

NextCache ==
    \/ \E w \in Workers : VStart(w)
    \/ \E w \in Workers : VCancel(w)
    \/ \E w \in Workers : VGet(w)
    \/ \E w \in Workers : VGetWriteBack(w)
    \/ \E w \in Workers : VProbe(w)
    \/ \E w \in Workers : VSaveRead(w)
    \/ \E w \in Workers : VSaveWrite(w)
    \/ \E w \in Workers : VDrop(w)
    \/ cleanup_expired_cache
    \/ VTick

SpecCache == InitCache /\ [][NextCache]_vars

InitStore ==
    /\ now = 0
    /\ host = Host(<< >>, NoPath, << NoPath, NoPath >>, << >>)
    /\ DiscIdle
    /\ verFile \in InitialVerFiles
    /\ VerIdle
    /\ StoreIdle
    /\ SupIdle
    /\ ProbeIdle
    /\ ValidIdle
    /\ InvalIdle
    /\ ScanIdle
    /\ NkIdle

NextStore ==
    \/ \E cmd \in Cmds : SGet(cmd)
    \/ SGetPaths
    \/ \E cmd \in Cmds, v \in PutValues : SPut(cmd, v)
    \/ \E list \in PutLists : SPutPaths(list)
    \/ SExpire
    \/ SClear
    \/ STick

SpecStore == InitStore /\ [][NextStore]_vars

InitSup ==
    /\ now = 0
    /\ host = Host(<< >>, NoPath, << NoPath, NoPath >>, << >>)
    /\ DiscIdle
    /\ verFile = NoVerFile
    /\ VerIdle
    /\ StoreIdle
    /\ SupIdle
    /\ ProbeIdle
    /\ ValidIdle
    /\ InvalIdle
    /\ ScanIdle
    /\ NkIdle

NextSup ==
    \/ AppInit
    \/ \E id \in Ids : Spawn(id)
    \/ \E id \in Ids : start_thread(id)
    \/ StartPythonDetection
    \/ StartVersionCheck
    \/ \E i \in 1..MaxThreads : ThreadRunEnds(i)
    \/ \E i \in 1..MaxThreads : on_thread_finished(i)
    \/ CancelBegin
    \/ CancelStep
    \/ CancelEnd

SpecSup == InitSup /\ [][NextSup]_vars

InitProbe ==
    /\ now = 0
    /\ host = Host(<< >>, NoPath, << NoPath, NoPath >>, << >>)
    /\ DiscIdle
    /\ verFile \in InitialVerFiles
    /\ VerIdle
    /\ StoreIdle
    /\ SupIdle
    /\ ProbeIdle
    /\ ValidIdle
    /\ InvalIdle
    /\ ScanIdle
    /\ NkIdle

NextProbe ==
    \/ \E cmd \in Cmds : VersionCheckStart(cmd)
    \/ RunLookup
    \/ RunPython
    \/ RunNuitka
    \/ RunSave
    \/ RunEmit
    \/ RunCancel
    \/ STick

SpecProbe == InitProbe /\ [][NextProbe]_vars

InitValid ==
    /\ now = 0
    /\ host = Host(<< >>, NoPath, << NoPath, NoPath >>, << >>)
    /\ DiscIdle
    /\ verFile = NoVerFile
    /\ VerIdle
    /\ StoreIdle
    /\ SupIdle
    /\ ProbeIdle
    /\ \E c \in Candidates :
          val = [c |-> c, asked |-> FALSE, packager |-> FALSE, thread |-> FALSE]
    /\ InvalIdle
    /\ ScanIdle
    /\ NkIdle

NextValid == Validate

SpecValid == InitValid /\ [][NextValid]_vars

InitInval ==
    /\ now = 0
    /\ host = Host(<< >>, NoPath, << NoPath, NoPath >>, << >>)
    /\ DiscIdle
    /\ verFile = NoVerFile
    /\ VerIdle
    /\ StoreIdle
    /\ SupIdle
    /\ ProbeIdle
    /\ ValidIdle
    /\ \E c \in CacheChecks : inv = [NoAutoDetect EXCEPT !.c = c]
    /\ ScanIdle
    /\ NkIdle

NextInval == auto_detect_python

SpecInval == InitInval /\ [][NextInval]_vars

InitScan ==
    /\ now = 0
    /\ host = Host(<< >>, NoPath, << NoPath, NoPath >>, << >>)
    /\ DiscIdle
    /\ verFile = NoVerFile
    /\ VerIdle
    /\ StoreIdle
    /\ SupIdle
    /\ ProbeIdle
    /\ ValidIdle
    /\ InvalIdle
    /\ \E st \in [ListedSources -> SourceStates] : scan = [NoScan EXCEPT !.st = st]
    /\ NkIdle

NextScan == FullScans

SpecScan == InitScan /\ [][NextScan]_vars

----------------------------------------------------------------------------
(* Properties of the discovery worker *)

NoDup(s) == \A i, j \in 1..Len(s) : i # j => s[i] # s[j]

\* ordered by length ascending, ties in lexical order
SortedLenLex(s) ==
    \A i, j \in 1..Len(s) :
        i < j => \/ Len(s[i]) < Len(s[j])
                 \/ Len(s[i]) = Len(s[j]) /\ LexLeq(s[i], s[j])

Emitted == Len(sigCompleted) > 0

\* C1: a run in which stop or the timeout was raised while the scan was under way
\* has left the path-list cache as it was when the run started.
C1_CancelledScanLeavesCache ==
    (pc = "done" /\ stopAt = "scan") => pathsFile = fileAtStart

\* C3: no lookup that reports a hit has read an entry older than the expiry.
C3_NoExpiredHit ==
    lastLookup.hit => ~(lastLookup.age > CACHE_EXPIRY_DAYS)

\* C4: a non-forced run that follows at once a run that completed, with nothing
\* changed in between, emits the same list in the same order, from the cache.
C4_SecondRunServedFromCache ==
    (pc = "done" /\ prev.valid /\ ~force /\ stopAt = "none" /\ sigFailed = 0)
        => /\ Len(sigCompleted) = 1
           /\ sigCompleted[1] = << prev.paths, TRUE >>

\* C5: every list emitted by detection_completed has no path twice and is ordered
\* by length ascending with ties in lexical order.
C5_EmittedListsSorted ==
    \A i \in 1..Len(sigCompleted) :
        NoDup(sigCompleted[i][1]) /\ SortedLenLex(sigCompleted[i][1])

\* C6: a run emits detection_completed at most once and detection_failed at most
\* once, never both; every emission carries its list and its from-cache flag.
C6_AtMostOneTerminalSignal ==
    /\ Len(sigCompleted) + sigFailed <= 1
    /\ \A i \in 1..Len(sigCompleted) : sigCompleted[i][2] \in BOOLEAN

C6_Witness ==
    pc = "done" /\ Len(sigCompleted) = 1 /\ sigFailed = 0 /\ scanned

\* C7: a run that has ended has delivered a result list or a failure signal.
C7_EveryRunDelivers ==
    pc = "done" => Len(sigCompleted) + sigFailed >= 1

\* C8: a run in which stop or the timeout was raised before the final check of
\* run() never emits detection_completed.
C8_NoCompletionAfterStop ==
    stopAt \in { "before", "scan" } => ~Emitted

\* C9: the non-forced run that follows a touch of the environment root of a cached
\* interpreter scans afresh and reports from_cache = False.
C9_TouchedRootForcesRescan ==
    (pc = "done" /\ ~force /\ rootTouched /\ Emitted)
        => (scanned /\ sigCompleted[1][2] = FALSE)

----------------------------------------------------------------------------
(* Properties of the version store *)

\* C2: once the save_cached_versions of both workers have returned, the store
\* holds the entry of each of them.
C2_NoLostUpdate ==
    (vpc[1] = "saved" /\ vpc[2] = "saved")
        => /\ cache_key(Cmd(1)) \in DOMAIN verFile.data
           /\ cache_key(Cmd(2)) \in DOMAIN verFile.data

\* the entries of a store whose timestamp parses and is older than the expiry
StrictlyOlder(d, t) ==
    { k \in DOMAIN d : d[k].parsed /\ t - d[k].timestamp > CACHE_EXPIRY_DAYS }

\* the entries of a store whose timestamp does not parse
Unparseable(d) == { k \in DOMAIN d : ~d[k].parsed }

\* the store after the call is the store before it without the keys in gone, and
\* the call returned their number
RemovedExactly(gone) ==
    /\ DOMAIN vresult.after = (DOMAIN vresult.before) \ gone
    /\ \A k \in DOMAIN vresult.after : vresult.after[k] = vresult.before[k]
    /\ vresult.removed = Cardinality(gone)

----------------------------------------------------------------------------
(* Properties of one cache manager *)

\* the last operation incremented exactly this one counter, by one
Incremented(counter) == stats = Bump(sop.statsBefore, counter)

\* C11: a lookup that does not find a valid entry (file missing, key missing,
\* store not deserializable, timestamp unparseable, entry expired) returns
\* not-found, and every lookup increments exactly one of hits, misses and errors
\* by one and leaves writes as it was.
C11_GetFailsSoftly ==
    sop.op \in { "get", "getPaths" } =>
        /\ sop.kind # "valid" =>
               ~sop.found /\ sop.value = << "None", "None" >> /\ sop.list = << >>
        /\ \E c \in { "hits", "misses", "errors" } : Incremented(c)

\* a lookup of the version store found it not deserializable
C11_Witness ==
    sop.op = "get" /\ sop.kind = "corrupt" /\ ~sop.found /\ Incremented("errors")

\* a lookup of the key of the last put finds the value that was put
PutIsFound ==
    LET k == cache_key(sop.cmd)
    IN  /\ StoreKind(verFile, corrupt, k, now) = "valid"
        /\ << verFile.data[k].python_version, verFile.data[k].nuitka_version >> = sop.value

\* every entry stored under another key before the last put is stored unchanged
PutKeepsOthers ==
    \A k \in (DOMAIN sop.dataBefore) \ { cache_key(sop.cmd) } :
        /\ verFile.exists /\ "versions" \notin corrupt
        /\ k \in DOMAIN verFile.data
        /\ verFile.data[k] = sop.dataBefore[k]

\* C12: after a save_cached_versions that wrote the file (it counted a write), a
\* lookup of the key yields the saved value and every entry under another key is
\* stored unchanged; a save whose write fails counts an error instead.
C12_PutMergesWhenWritten ==
    sop.op = "put" =>
        IF sop.ok THEN PutIsFound /\ PutKeepsOthers /\ Incremented("writes")
                  ELSE Incremented("errors")

\* a save that replaced the entry of its key and kept the entry of another key
C12_Witness ==
    /\ sop.op = "put" /\ sop.ok
    /\ cache_key(sop.cmd) \in DOMAIN sop.dataBefore
    /\ sop.dataBefore[cache_key(sop.cmd)].python_version # sop.value[1]
    /\ (DOMAIN sop.dataBefore) \ { cache_key(sop.cmd) } # { }
    /\ PutIsFound

\* C12 as stated: after every save_cached_versions a lookup of the key yields the
\* saved value and every entry under another key is stored unchanged.
C12_PutMerges ==
    sop.op = "put" => PutIsFound /\ PutKeepsOthers

StoreEmpty == ~verFile.exists /\ ~pathsFile.exists

\* C13: clear_cache succeeds when no backing file exists and whenever the files
\* that exist can be removed; a clear that succeeded leaves the four counters at
\* zero and both files absent, and from then until the next save every lookup
\* returns not-found; a clear that fails counts an error.
C13_ClearWhenRemovable ==
    /\ sop.op = "clear" =>
           /\ sop.kind = "neither" => sop.ok
           /\ IF sop.ok THEN stats = ZeroStats /\ StoreEmpty
                        ELSE Incremented("errors")
    /\ sop.cleared =>
           /\ StoreEmpty
           /\ sop.op \in { "get", "getPaths" } => ~sop.found

\* a clear with one backing file absent and counters that were not zero
C13_Witness ==
    /\ sop.op = "clear" /\ sop.ok
    /\ sop.kind = "paths"
    /\ sop.statsBefore # ZeroStats
    /\ stats = ZeroStats

\* C13 as stated: every clear_cache succeeds and leaves the counters at zero and
\* the store empty.
C13_ClearAlwaysSucceeds ==
    sop.op = "clear" => sop.ok /\ stats = ZeroStats /\ StoreEmpty

Counters == { "hits", "misses", "writes", "errors" }

\* C14: no lookup, save or cleanup on the instance makes any of its four counters
\* smaller; a counter is smaller after an operation only when it was clear_cache.
C14_CountersMonotone ==
    sop.op # "clear" => \A c \in Counters : stats[c] >= sop.statsBefore[c]

\* a failed cleanup on an instance that had counted a hit and a write
C14_Witness ==
    /\ sop.op = "expire" /\ ~sop.ok
    /\ stats.hits > 0 /\ stats.writes > 0
    /\ stats.errors = sop.statsBefore.errors + 1

----------------------------------------------------------------------------
(* Properties of the thread manager *)

\* C15: when cancel_all_threads has returned, cancel() was called on every
\* handle that was in active_threads when it was called, whether or not the
\* handles visited before it ended within their wait.
C15_CancelAllSignalsAll ==
    creturned => \A h \in csnap : thr[h].signalled

\* cancel_all_threads returned with two handles, both still running
C15_Witness ==
    /\ creturned
    /\ Cardinality(csnap) = 2
    /\ \A h \in csnap : isRunning(thr[h]) /\ thr[h].signalled

\* the non-cancelled thread has left run()
RunOver == vrun.pc = "ended" /\ ~vrun.canceled

Reported == vrun.emitted \in { "cache_hit", "version_check_completed" }

\* C16: a version check that is not cancelled ends by emitting a pair, and
\* when the pair comes from the two invocations each component whose
\* invocation could not be spawned or exited non-zero is None
C16_FailedProbeIsUnknown ==
    RunOver =>
       /\ Reported
       /\ vrun.emitted = "version_check_completed" =>
             /\ vrun.py.rc # "ok" => vrun.args[1] = "None"
             /\ vrun.nk.rc # "ok" => vrun.args[2] = "None"

C16_Witness ==
    /\ RunOver
    /\ vrun.emitted = "version_check_completed"
    /\ vrun.py.rc = "spawn_failed"
    /\ vrun.nk.rc = "nonzero"
    /\ vrun.args = << "None", "None" >>

\* the inferred root holds pyvenv.cfg and nothing else, and the interpreter is
\* where the validator looks for it
OnlyManifest ==
    /\ val.asked
    /\ venv_dir(val.c) = { "pyvenv.cfg" }
    /\ val.c.python_is_file
    /\ val.c.scripts_python

\* the inferred root holds none of the five marks of an environment
NoStandardMarker == val.asked /\ venv_dir(val.c) \cap StandardMarkers = { }

\* the inferred root holds a mark of a conda base installation, on Windows
CondaBaseOnWindows ==
    val.c.platform = "Windows" /\ is_conda_base(venv_dir(val.c))

\* C17, as the code has it: both validators accept a root that holds only
\* pyvenv.cfg; both reject a root with none of the five marks, except that
\* the packager's validator accepts a conda base installation on Windows
C17_ValidatorAcceptance ==
    /\ OnlyManifest => val.packager /\ val.thread
    /\ NoStandardMarker =>
          /\ ~val.thread
          /\ ~CondaBaseOnWindows => ~val.packager

C17_Witness ==
    /\ NoStandardMarker
    /\ val.c.python_is_file
    /\ val.c.platform = "Windows"
    /\ venv_dir(val.c) = { }
    /\ ~val.packager
    /\ ~val.thread

\* C17, as stated: both validators accept a root that holds only pyvenv.cfg
\* and reject every root with none of the five marks
C17_RejectsWithoutMarkers ==
    /\ OnlyManifest => val.packager /\ val.thread
    /\ NoStandardMarker => ~val.thread /\ ~val.packager

\* C18: when a run that scanned has saved its list and emitted it, the list in
\* the cache file is the emitted list, element for element and in order.
C18_PersistedIsEmitted ==
    ( /\ pc = "done"
      /\ scanned
      /\ saveOk = "ok"
      /\ Len(sigCompleted) = 1
      /\ ~sigCompleted[1][2] )
        => pathsFile.data = sigCompleted[1][1]

\* C19: at any time at most one PythonDetectionThread is running.
C19_SingleFlight == Cardinality(RunningDetections) <= 1

\* the thread objects the handle map holds
Handles == { active_threads[id] : id \in DOMAIN active_threads }

\* C20: every thread that is running is a value of ThreadManager.active_threads.
C20_HandleMapIsTruth ==
    \A i \in 1..Len(thr) : isRunning(thr[i]) => i \in Handles

\* a check of the validation met an access error
CheckFailed ==
    \/ inv.c.env_check = "error"
    \/ inv.c.envs = "error"
    \/ \E i \in 1..MaxCached : inv.c.roots[i] = "error"

\* C21: when a filesystem access of the validation fails, the cached result is
\* judged invalid and the scan is run again.
C21_ErrorsInvalidate ==
    (inv.asked /\ CheckFailed) => ~inv.valid /\ inv.rescanned

\* C22: when a manager variable was set at the time of the write and is unset
\* now, or the reverse, the cached result is judged invalid.
C22_ContextChangeInvalidates ==
    (inv.asked /\ inv.c.manager_var_then # inv.c.manager_var_now) => ~inv.valid

\* C23: a lookup of a stored entry is a hit exactly when a cleanup at the same
\* instant would keep the entry, and a cleanup keeps exactly the entries a
\* lookup at the same instant would serve.
C23_GetAndExpireAgree ==
    /\ ( sop.op = "get" /\ cache_key(sop.cmd) \in DOMAIN sop.dataBefore )
          => ( sop.found <=> Retained(sop.dataBefore[cache_key(sop.cmd)], now) )
    /\ ( sop.op = "expire" /\ sop.ok )
          => \A k \in DOMAIN sop.dataBefore :
                 k \in DOMAIN verFile.data <=> get_hit(sop.dataBefore[k], now)

C23_Witness ==
    /\ sop.op = "get"
    /\ sop.found
    /\ cache_key(sop.cmd) \in DOMAIN sop.dataBefore
    /\ now - sop.dataBefore[cache_key(sop.cmd)].timestamp = CACHE_EXPIRY_DAYS

\* a step in which create_thread made a thread and put it in the map
SpawnStep == Len(thr') = Len(thr) + 1 /\ Len(thr') \in Handles'

\* C24: when create_thread returns, the only handle of the map whose thread
\* has finished, if there is one, is the handle just created.
C24_ReapOnSpawn ==
    [][ SpawnStep =>
           \A id \in DOMAIN active_threads' :
               isFinished(thr'[active_threads'[id]]) => active_threads'[id] = Len(thr')
      ]_vars

\* a finished thread whose callback has not run yet is out of the map after a
\* spawn under another id
C24_Witness ==
    /\ Len(thr) = 2
    /\ isFinished(thr[1])
    /\ thr[1].cb
    /\ thr[1].tid = "python_detection"
    /\ thr[2].tid = "other"
    /\ DOMAIN active_threads = { "other" }

\* a step of the thread's run()
RunStep == RunLookup \/ RunPython \/ RunNuitka \/ RunSave \/ RunEmit

\* C25: a version check that was started has ended or can take its next step,
\* whatever the spawned processes do; it is never left waiting for a process
\* that does not exit.
C25_ProbeTerminates ==
    vrun.pc \in { "idle", "ended" } \/ ENABLED RunStep

\* exactly one source fails
OneSourceFails == Cardinality({ src \in ListedSources : scan.st[src] = "fails" }) = 1

\* C26: when the enumeration of one source fails, the worker thread's scan and
\* the synchronous scan both complete, each with every interpreter of its
\* other sources.
C26_OneFailureNeverAborts ==
    (scan.done /\ OneSourceFails) =>
        /\ scan.thread.completed
        /\ scan.thread.paths = Remaining(ThreadSources, scan.st)
        /\ scan.packager.completed
        /\ scan.packager.paths = Remaining(PackagerSources, scan.st)

\* C27: a Nuitka-detection lookup made when the cache file holds a saved
\* discovery path list does not get that list as its cached result, and the
\* detection thread is started.
C27_KeyIsolation ==
    (nuitka_check.asked /\ nuitka_check.file.exists) =>
        /\ ~(nuitka_check.cached_result.some /\ nuitka_check.cached_result.data = nuitka_check.file.data)
        /\ nuitka_check.thread_started

\* C28: a forced run makes no lookup in the path-list cache and every list it
\* emits is flagged as not from the cache; a list flagged as from the cache is
\* emitted only by a run that executed no scanner, and is the list that the
\* cache file held.
C28_ForceAndFlag ==
    /\ (force /\ pc # "idle") =>
           /\ stats.hits = 0 /\ stats.misses = 0
           /\ \A i \in 1..Len(sigCompleted) : sigCompleted[i][2] = FALSE
    /\ \A i \in 1..Len(sigCompleted) :
           sigCompleted[i][2] = TRUE =>
               /\ ~scanned
               /\ fileAtStart.exists
               /\ sigCompleted[i][1] = fileAtStart.data

\* a forced run completed by scanning although a usable cached list was there
C28_Witness ==
    /\ pc = "done" /\ force /\ scanned
    /\ fileAtStart.exists /\ Truthy(fileAtStart.data)
    /\ get_cached_python_paths_hit(fileAtStart, now)
    /\ Len(sigCompleted) = 1 /\ sigCompleted[1][2] = FALSE

\* C29: a version lookup that has counted a hit has delivered the cached pair
\* with the cache_hit signal, an entry whose two versions are unknown included.
C29_HitIsServed ==
    (vrun.pc # "idle" /\ stats.hits > 0) => vrun.emitted = "cache_hit"

\* C30: while cancel_all_threads is under way it can always take its next step
\* or return, whatever callbacks of finished workers are pending; and a
\* finished worker whose callback has run is no longer in the handle map.
C30_CancelAllReturns ==
    /\ thread_lock # "free" => ENABLED (CancelStep \/ CancelEnd)
    /\ \A i \in 1..Len(thr) :
           (isFinished(thr[i]) /\ thr[i].tid # "none" /\ ~thr[i].cb) => i \notin Handles

\* cancel_all_threads returned; a discovery worker it cancelled was finished
\* with its callback pending while the lock was held, and the callback has
\* since removed it from the map
C30_Witness ==
    /\ creturned
    /\ thread_lock = "free"
    /\ \E h \in csnap :
          /\ thr[h].kind = "PythonDetectionThread"
          /\ thr[h].signalled
          /\ isFinished(thr[h])
          /\ thr[h].tid # "none"
          /\ ~thr[h].cb
          /\ h \notin Handles

====
